---- MODULE Spec2Model ----
(***************************************************************************)
(* A model of the ring protocol engine of drivers/net/xen-netfront.c: the  *)
(* transmit path (xennet_start_xmit, xennet_make_frags, xennet_tx_buf_gc), *)
(* the receive path (xennet_alloc_rx_buffers, xennet_poll and the parser   *)
(* xennet_get_responses / xennet_get_extras), the interrupt handler, the   *)
(* device life cycle (connect, open, close, disconnect) and the backend    *)
(* (the peer), which shares the two rings, the grant table and one event   *)
(* channel with the driver.                                                *)
(*                                                                         *)
(* Sizes are scaled down: the rings have 2^TxRingOrder and 2^RxRingOrder    *)
(* slots, a page has PAGE_SIZE bytes, a packet has at most MAX_SKB_FRAGS   *)
(* page fragments, and the fill targets RX_MIN_TARGET <= RX_DFL_MIN_TARGET *)
(* <= RX_MAX_TARGET are a quarter, a half and the whole of the RX ring.    *)
(* Ring indices are free-running counters as in the code (RING_IDX), used  *)
(* modulo the ring size and subtracted modulo IDX_MOD.                     *)
(***************************************************************************)
EXTENDS Integers, Sequences, FiniteSets, TLC

\* ------------------------------------------------------------------ bounds
TxRingOrder == 2        \* log2 of the number of slots of the TX ring
RxRingOrder == 3        \* log2 of the number of slots of the RX ring
MAX_SKB_FRAGS == 1      \* page fragments per packet (kernel: 65536/PAGE_SIZE + 2)
PAGE_SIZE == 4          \* bytes per page (scaled)
MaxTxProd == 4          \* no submission once tx.req_prod_pvt reached this
MaxRxRsp == 3           \* the peer publishes at most this many RX responses
MaxGrantRsp == 2        \* the same, where both rings are in use
MaxFlowRsp == 6         \* the same, where only good packets are received
MaxDownRsp == 1         \* the same, where the device is torn down
MaxParseRsp == 3        \* the same, where chains and extra-info records are parsed
MaxRefillRsp == 2       \* the same, where the allocator may fail
MaxPubProd == 1         \* no stepwise submission once tx.req_prod_pvt reached this
MaxConnects == 1        \* connects per run
MaxMapped == 1          \* grants the peer keeps mapped at one time
NAPI_WEIGHT == 2        \* the poll budget (netif_napi_add registers 64)
MaxAlloc == 1           \* an allocation failure comes after at most this many buffers
MaxOverrun == 1         \* a misbehaving peer publishes at most this many responses too many
MaxStat == 1            \* tx_dropped is followed up to this value

\* --------------------------------------------------------------- constants
RECURSIVE Pow2(_)
Pow2(n) == IF n = 0 THEN 1 ELSE 2 * Pow2(n - 1)

Min(a, b) == IF a < b THEN a ELSE b
Max(a, b) == IF a < b THEN b ELSE a

\* RING_IDX is an unsigned integer: differences and sums wrap.
IDX_MOD == Pow2(30)
USub(a, b) == (a - b) % IDX_MOD
UAdd(a, b) == (a + b) % IDX_MOD

GRANT_INVALID_REF == 0
NET_TX_RING_SIZE == Pow2(TxRingOrder)
NET_RX_RING_SIZE == Pow2(RxRingOrder)
TX_MAX_TARGET == Min(NET_TX_RING_SIZE, 256)
RX_MAX_TARGET == Min(NET_RX_RING_SIZE, 256)
RX_MIN_TARGET == Min(RX_MAX_TARGET, Max(1, RX_MAX_TARGET \div 4))
RX_DFL_MIN_TARGET == Min(RX_MAX_TARGET, Max(1, RX_MAX_TARGET \div 2))
RX_COPY_THRESHOLD == PAGE_SIZE \div 2

TxIds == 0 .. (NET_TX_RING_SIZE - 1)
RxIds == 0 .. (NET_RX_RING_SIZE - 1)
\* The grant table: references 1 .. NGrants (0 is GRANT_INVALID_REF).
NGrants == TX_MAX_TARGET + RX_MAX_TARGET + MaxMapped
Refs == 1 .. NGrants
\* Packet buffers (sk_buff) are named by small integers; 0 is NULL.
NSkb == NET_TX_RING_SIZE + 2 * NET_RX_RING_SIZE + 4
Skbs == 1 .. NSkb

VARIABLES
    carrier,          \* netif_carrier_ok(dev)
    running,          \* netif_running(dev): between open and close
    qstopped,         \* netif_queue_stopped(dev)
    napi,             \* "disabled" | "idle" | "sched"
    connected,        \* tx_slots / rx_slots / rings are allocated
    crashed,          \* a BUG() or BUG_ON() fired
    nconnect,         \* connects so far
    irq_pending,      \* the event channel has an undelivered notification
    tx,               \* front ring, private: [req_prod_pvt, rsp_cons]
    txs,              \* shared ring header: [req_prod, req_event, rsp_prod, rsp_event]
    tx_ring,          \* shared ring slots (request and response overlay each other)
    tx_slots,         \* id -> [is_link, link, skb, gref]
    tx_skb_freelist,  \* head of the id freelist
    gref_tx_head,     \* TX grant pool (private free list, head first)
    gref_rx_head,     \* RX grant pool
    gnt,              \* grant table: ref -> "global" | "pool" | "claimed" | "bound" | "ended" | "leaked"
    gnt_mapped,       \* references the peer currently maps
    skb_users,        \* skb -> reference count (0: free)
    txc,              \* the context holding tx_lock: [owner, pc, prod, first, pkt, notify]
    rx,               \* front ring, private: [req_prod_pvt, rsp_cons]
    rxs,              \* shared ring header: [req_prod, req_event, rsp_prod, rsp_event]
    rx_ring,          \* shared ring slots: [id, offset, flags, status]
    rx_slots,         \* slot -> [skb, gref]
    rx_target,        \* receive buffers to keep outstanding
    rx_min_target,
    rx_max_target,
    rx_batch,         \* staged buffers, not yet posted
    timer_armed,      \* rx_refill_timer is pending
    rxc,              \* the context holding rx_lock: [owner, pc, work_done]
    features,         \* negotiated device features: [sg, tso]
    stats,            \* dev->stats: [tx_dropped, rx_errors]
    hist,             \* history: facts about what has happened, read by the properties
    teardown          \* where xennet_disconnect_backend stands: "none" | "unbind" |
                      \* "rings" | "slots" | "pools"

txvars == << tx, txs, tx_ring, tx_slots, tx_skb_freelist, gref_tx_head >>

\* --------------------------------------------------------- ring slot values
\* One slot of the TX ring.  A request and the response that later overwrites it
\* share the slot; "gso" is the extra-info record that follows a head request.
NoSlot == [t |-> "none", id |-> 0, gref |-> 0, offset |-> 0, size |-> 0,
           more |-> FALSE, extra |-> FALSE, status |-> 0]
TxReq(old, id, ref, off, sz) == [NoSlot EXCEPT !.t = "req", !.id = id, !.gref = ref,
                                               !.offset = off, !.size = sz,
                                               !.status = old.status]
TxGso(sz) == [NoSlot EXCEPT !.t = "gso", !.size = sz]
TxRsp(id, st) == [NoSlot EXCEPT !.t = "rsp", !.id = id, !.status = st]

XEN_NETIF_RSP_OKAY == 0
XEN_NETIF_RSP_NULL == 1
XEN_NETIF_EXTRA_TYPE_GSO == 1

\* What xennet_tx_buf_gc reads from a slot as a response {id, status}.  The id
\* of a request is where the id of a response is and a request leaves the bytes
\* of the status alone; an extra-info record has its type and flags where the
\* id is and its segment size where the status is.
RspIdOf(s) == IF s.t = "gso" THEN XEN_NETIF_EXTRA_TYPE_GSO ELSE s.id
RspStatusOf(s) == IF s.t = "gso" THEN s.size ELSE s.status

\* A free id is a link of the freelist, an owned one holds its packet buffer.
FreeSlot(next) == [is_link |-> TRUE, link |-> next, skb |-> 0, gref |-> GRANT_INVALID_REF]

\* ------------------------------------------------------------- grant table
\* gnttab_end_foreign_access_ref: fails (0) while the peer maps the reference.
EndAccessOk(mapped, ref) == ref \notin mapped

\* The references gnttab_alloc_grant_references hands out: the lowest free ones.
RECURSIVE LowestRefs(_, _, _)
LowestRefs(g, n, from) ==
    IF n = 0 \/ from > NGrants THEN << >>
    ELSE IF g[from] = "global"
         THEN << from >> \o LowestRefs(g, n - 1, from + 1)
         ELSE LowestRefs(g, n, from + 1)

SeqToSet(s) == { s[i] : i \in 1 .. Len(s) }

\* The references refs leave the global free list for a private pool.
TakeRefs(g, refs) == [r \in Refs |-> IF r \in SeqToSet(refs) THEN "pool" ELSE g[r]]

\* ------------------------------------------------------------ the TX engine
\* The driver's TX state as one value, so that a handler's code can be followed
\* statement by statement: ring, slots, fl (freelist head), pool, g (grant table),
\* users (buffer reference counts), bug (a BUG_ON fired or memory outside the
\* slot table was used), infl (ids handed to descriptors and not yet completed),
\* dup (an id was handed out while a descriptor still owned it).
TxState == [ring |-> tx_ring, slots |-> tx_slots, fl |-> tx_skb_freelist,
            pool |-> gref_tx_head, g |-> gnt, users |-> skb_users, bug |-> FALSE,
            infl |-> hist.tx_inflight, dup |-> hist.id_dup]

\* netfront_tx_slot_available
SlotAvailable(prod_pvt, rsp_cons) ==
    USub(prod_pvt, rsp_cons) < TX_MAX_TARGET - MAX_SKB_FRAGS - 2

netfront_tx_slot_available == SlotAvailable(tx.req_prod_pvt, tx.rsp_cons)

\* get_id_from_freelist, then the slot is given its buffer, a grant is claimed and
\* bound read-only to the page and the request at ring position pos is written
\* (the block repeated at lines 532-545, 453-467 and 476-490).  get: skb_get().
TxDesc(T, skb, pos, off, sz, get) ==
    LET id == T.fl IN
    IF T.bug \/ id \notin TxIds \/ T.pool = << >>
    THEN [T EXCEPT !.bug = TRUE]
    ELSE LET ref == Head(T.pool) IN
         [T EXCEPT !.fl = T.slots[id].link,
                   !.slots[id] = [is_link |-> FALSE, link |-> 0, skb |-> skb, gref |-> ref],
                   !.pool = Tail(T.pool),
                   !.g[ref] = "bound",
                   !.users[skb] = IF get THEN @ + 1 ELSE @,
                   !.ring[pos % NET_TX_RING_SIZE] = TxReq(@, id, ref, off, sz),
                   !.dup = @ \/ (id \in T.infl),
                   !.infl = @ \cup {id}]

\* A request is cut at the page boundary but not flagged as continued.
SetSizeOnly(T, pos, sz) ==
    [T EXCEPT !.ring[pos % NET_TX_RING_SIZE].size = sz]

\* xennet_make_frags: the request in hand ends at the page boundary and is
\* flagged XEN_NETTXF_more_data.
SetMore(T, pos, sz) ==
    [T EXCEPT !.ring[pos % NET_TX_RING_SIZE].more = TRUE,
              !.ring[pos % NET_TX_RING_SIZE].size = sz]

\* xennet_make_frags, first loop: while the header overlaps a page boundary.
\* cur is the ring position of the request tx points at, prod the next position.
RECURSIVE HeadSplit(_, _, _, _, _, _)
HeadSplit(T, skb, cur, prod, offset, len) ==
    IF len > PAGE_SIZE - offset
    THEN LET sz == PAGE_SIZE - offset
             T1 == SetMore(T, cur, sz)
             T2 == TxDesc(T1, skb, prod, 0, len - sz, TRUE)
         IN HeadSplit(T2, skb, prod, prod + 1, 0, len - sz)
    ELSE [T |-> T, cur |-> cur, prod |-> prod]

\* xennet_make_frags, second loop: one request per page fragment.  Every
\* fragment of the model is frag_size bytes at offset 0 of its page.
frag_size == 1
\* The segment size of a GSO packet (skb_shinfo(skb)->gso_size).
gso_size == 2
RECURSIVE FragLoop(_, _, _, _, _)
FragLoop(T, skb, cur, prod, frags) ==
    IF frags = 0 THEN [T |-> T, cur |-> cur, prod |-> prod]
    ELSE LET T1 == [T EXCEPT !.ring[cur % NET_TX_RING_SIZE].more = TRUE]
             T2 == TxDesc(T1, skb, prod, 0, frag_size, TRUE)
         IN FragLoop(T2, skb, prod, prod + 1, frags - 1)

\* The second loop starts where the first one stopped.
FragsAfter(h, skb, frags) == FragLoop(h.T, skb, h.cur, h.prod, frags)

xennet_make_frags(T, skb, cur, prod, offset, len, frags) ==
    FragsAfter(HeadSplit(T, skb, cur, prod, offset, len), skb, frags)

DIV_ROUND_UP(n, d) == (n + d - 1) \div d

\* The packets handed to xennet_start_xmit: the head is len >= 1 bytes at offset
\* off of its page, followed by frags page fragments; gso: gso_size != 0.
Packets == [off : {0, PAGE_SIZE - 1}, len : {2}, frags : 0 .. MAX_SKB_FRAGS,
            gso : BOOLEAN]
SkbLen(p) == p.len + p.frags * frag_size
SlotCount(p) == p.frags + DIV_ROUND_UP(p.off + p.len, PAGE_SIZE)

\* The lowest free buffer name.
NewSkb(users) == CHOOSE k \in Skbs : users[k] = 0 /\ \A j \in Skbs : users[j] = 0 => k <= j

\* xennet_start_xmit, the GSO record: it takes the slot after the first request,
\* which is flagged XEN_NETTXF_extra_info.
TxExtra(T, p, i) ==
    IF p.gso
    THEN [T EXCEPT !.ring[(i + 1) % NET_TX_RING_SIZE] = TxGso(gso_size),
                   !.ring[i % NET_TX_RING_SIZE].extra = TRUE]
    ELSE T

\* xennet_start_xmit: the first request, for the head of the buffer skb.
TxHead(T0, skb, p, i) ==
    TxExtra(TxDesc([T0 EXCEPT !.users[skb] = 1], skb, i, p.off, p.len, FALSE), p, i)

\* xennet_start_xmit: "tx->size = skb->len" after xennet_make_frags returned m.
TxSize(m, p, i) ==
    [T |-> [m.T EXCEPT !.ring[i % NET_TX_RING_SIZE].size = SkbLen(p)], prod |-> m.prod]

\* xennet_start_xmit from "i = np->tx.req_prod_pvt" to the call of
\* xennet_make_frags and "tx->size = skb->len", for the buffer skb.
TxBuild(T0, skb, p, i) ==
    TxSize(xennet_make_frags(TxHead(T0, skb, p, i), skb, i,
                             IF p.gso THEN i + 2 ELSE i + 1, p.off, p.len, p.frags),
           p, i)

\* The same for a new buffer.  The result's prod is the new tx.req_prod_pvt.
TxSubmit(T0, p, i) == TxBuild(T0, NewSkb(T0.users), p, i)

\* RING_PUSH_REQUESTS_AND_CHECK_NOTIFY: whether the peer must be notified.
PushNotify(old, new, event) == USub(new, event) < USub(new, old)

\* A collector that moves the cursor and collects nothing.
GcSkip(T, cons, prod, mapped) == T

\* xennet_tx_buf_gc, the for loop over the responses cons .. prod - 1.
RECURSIVE GcScan(_, _, _, _)
GcScan(T, cons, prod, mapped) ==
    IF cons = prod \/ T.bug THEN T
    ELSE LET rsp == T.ring[cons % NET_TX_RING_SIZE]
             id == RspIdOf(rsp)
         IN IF RspStatusOf(rsp) = XEN_NETIF_RSP_NULL
            THEN GcScan(T, UAdd(cons, 1), prod, mapped)
            ELSE IF id \notin TxIds \/ T.slots[id].is_link
                    \/ T.slots[id].gref \in mapped
                 THEN [T EXCEPT !.bug = TRUE]
                 ELSE LET ref == T.slots[id].gref
                          skb == T.slots[id].skb
                          T1 == IF ref = GRANT_INVALID_REF THEN T
                                ELSE [T EXCEPT !.g[ref] = "pool",
                                               !.pool = << ref >> \o @]
                          T2 == [T1 EXCEPT !.slots[id] = FreeSlot(T.fl),
                                           !.fl = id,
                                           !.users[skb] = @ - 1,
                                           !.infl = IF rsp.t = "rsp" THEN @ \ {id} ELSE @]
                      IN GcScan(T2, UAdd(cons, 1), prod, mapped)

\* ------------------------------------------------------------ the RX engine
\* A slot of the RX ring as the response the parser reads: id, offset, flags,
\* status.  A request {id, gref} written over it leaves offset alone and puts
\* the grant reference where flags and status are; an extra-info record is read
\* from the same bytes: type and flags from id, the segmentation size from
\* offset, the segmentation type from flags.
RxSlot(id, off, fl, st) == [id |-> id, offset |-> off, flags |-> fl, status |-> st]
RxReq(old, id, ref) == [old EXCEPT !.id = id, !.flags = ref, !.status = 0]

Bit(x, b) == (x \div b) % 2 = 1
XEN_NETRXF_data_validated == 1
XEN_NETRXF_csum_blank == 2
XEN_NETRXF_more_data == 4
XEN_NETRXF_extra_info == 8
XEN_NETIF_EXTRA_TYPE_MAX == 4
XEN_NETIF_GSO_TYPE_TCPV4 == 1
XEN_NETIF_EXTRA_FLAG_MORE == 1
ExtraType(s) == s.id % 256
ExtraMore(s) == Bit(s.id \div 256, 1)
GsoSize(s) == s.offset
GsoType(s) == s.flags % 256

\* A signed int holding an unsigned difference (int batch_target).
ToSigned(x) == IF x >= IDX_MOD \div 2 THEN x - IDX_MOD ELSE x

xennet_rxidx(idx) == idx % NET_RX_RING_SIZE

EmptyRxSlot == [skb |-> 0, gref |-> GRANT_INVALID_REF]

\* The driver's RX state as one value: ring, slots, pool, g (grant table), users,
\* pvt (rx.req_prod_pvt), cons (rx.rsp_cons), batch (rx_batch), target / min /
\* max, sreq (shared req_prod), timer, bug, and the queues of one poll pass:
\* list (tmpq), errq, rxq; extras (the GSO extra-info record of the packet being
\* parsed, or NoExtra), err (the parser's return value), rx_errors, and for the
\* properties: rej (a response of the packet being parsed was rejected for its
\* status, offset or grant) and seen (what the parser has met so far).
NoExtra == RxSlot(0, 0, 0, 0)
RxState == [ring |-> rx_ring, slots |-> rx_slots, pool |-> gref_rx_head, g |-> gnt,
            users |-> skb_users, pvt |-> rx.req_prod_pvt, cons |-> rx.rsp_cons,
            batch |-> rx_batch, target |-> rx_target, min |-> rx_min_target,
            max |-> rx_max_target, sreq |-> rxs.req_prod, timer |-> timer_armed,
            bug |-> FALSE, list |-> << >>, errq |-> << >>, rxq |-> << >>,
            extras |-> NoExtra, err |-> FALSE, rx_errors |-> stats.rx_errors,
            notify |-> FALSE, seen |-> hist.rx_seen, rej |-> FALSE]

\* A parser that reads a slot without emptying it.
KeepRxSlot(R, ri) == R

\* xennet_get_rx_skb and xennet_get_rx_ref: take the buffer and the grant out of
\* the slot of ring position ri.
TakeRxSlot(R, ri) == [R EXCEPT !.slots[xennet_rxidx(ri)] = EmptyRxSlot]

\* A recycle that fills the slot and writes no request.
MoveSlotOnly(R, skb, ref) ==
    [R EXCEPT !.slots[xennet_rxidx(R.pvt)] = [skb |-> skb, gref |-> ref],
              !.pvt = UAdd(@, 1)]

\* xennet_move_rx_slot: re-post a buffer and its grant at the private producer.
xennet_move_rx_slot(R, skb, ref) ==
    LET new == xennet_rxidx(R.pvt) IN
    IF R.slots[new].skb # 0 THEN [R EXCEPT !.bug = TRUE]
    ELSE [R EXCEPT !.slots[new] = [skb |-> skb, gref |-> ref],
                   !.ring[new] = RxReq(@, new, ref),
                   !.pvt = UAdd(@, 1)]

\* xennet_get_extras, one record: a type out of range is an error, a GSO record
\* is kept in extras.
NoteExtra(R, extra) ==
    IF ExtraType(extra) = 0 \/ ExtraType(extra) >= XEN_NETIF_EXTRA_TYPE_MAX
    THEN [R EXCEPT !.err = TRUE]
    ELSE IF ExtraType(extra) = XEN_NETIF_EXTRA_TYPE_GSO
         THEN [R EXCEPT !.extras = extra]
         ELSE R

\* A parser that takes the buffer of a record out of its slot and drops it.
NoRepost(R, c) == TakeRxSlot(R, c)

\* xennet_get_extras: the buffer and the grant of ring position c are taken out
\* of their slot and re-posted.
Repost(R, c) ==
    xennet_move_rx_slot(TakeRxSlot(R, c), R.slots[xennet_rxidx(c)].skb,
                        R.slots[xennet_rxidx(c)].gref)

\* xennet_get_extras: the do-while loop, cons being the last position consumed.
RECURSIVE xennet_get_extras(_, _, _)
xennet_get_extras(R, cons, rp) ==
    IF R.bug THEN R
    ELSE IF UAdd(cons, 1) = rp
    THEN [R EXCEPT !.err = TRUE, !.cons = cons]
    ELSE LET c == UAdd(cons, 1)
             extra == R.ring[xennet_rxidx(c)]
         IN IF ExtraMore(extra)
            THEN xennet_get_extras(Repost(NoteExtra(R, extra), c), c, rp)
            ELSE [Repost(NoteExtra(R, extra), c) EXCEPT !.cons = c]

\* xennet_get_responses, the body of the for (;;) loop up to the label next: the
\* response rsp, whose slot held the buffer and the grant s, is checked and its
\* grant is ended and released.
RespCheck(R, rsp, s, mapped) ==
    IF rsp.status < 0 \/ rsp.offset + rsp.status > PAGE_SIZE
    THEN [xennet_move_rx_slot(R, s.skb, s.gref) EXCEPT
              !.err = TRUE, !.rej = TRUE, !.seen = @ \cup {"bad"}]
    ELSE IF s.gref = GRANT_INVALID_REF
    THEN [R EXCEPT !.err = TRUE, !.rej = TRUE, !.seen = @ \cup {"noref"}]
    ELSE IF ~EndAccessOk(mapped, s.gref)
    THEN [R EXCEPT !.bug = TRUE,
                   !.seen = IF R.rej THEN @ \cup {"bug_after_reject"} ELSE @]
    ELSE [R EXCEPT !.g[s.gref] = "pool",
                   !.pool = << s.gref >> \o @,
                   !.list = Append(@, s.skb)]

\* xennet_get_responses, the for (;;) loop: rsp is the response being looked
\* at, s the buffer and grant taken from its slot, frags the responses of the
\* chain taken so far.  The result's nfrags is the final value of frags.
RECURSIVE RespLoop(_, _, _, _, _, _, _)

\* xennet_get_responses, from the label next to the end of the loop body: R1 is
\* the state after the check of rsp.
RespNext(R1, rsp, cons, frags, rp, mapped) ==
    IF R1.bug THEN [R |-> R1, nfrags |-> frags]
    ELSE IF ~Bit(rsp.flags, XEN_NETRXF_more_data)
    THEN [R |-> R1, nfrags |-> frags]
    ELSE IF UAdd(cons, frags) = rp
    THEN [R |-> [R1 EXCEPT !.err = TRUE, !.seen = @ \cup {"need_more"}], nfrags |-> frags]
    ELSE RespLoop(TakeRxSlot(R1, UAdd(cons, frags)),
                  R1.ring[xennet_rxidx(UAdd(cons, frags))],
                  R1.slots[xennet_rxidx(UAdd(cons, frags))],
                  cons, frags + 1, rp, mapped)

RespLoop(R, rsp, s, cons, frags, rp, mapped) ==
    RespNext(RespCheck(R, rsp, s, mapped), rsp, cons, frags, rp, mapped)

\* A parser that accepts a chain of any length.
RespEndAnyLength(l, cons, max) ==
    IF l.R.err THEN [l.R EXCEPT !.cons = UAdd(cons, l.nfrags)] ELSE l.R

\* xennet_get_responses, after the loop: too many fragments are an error, and
\* on an error rsp_cons moves past the chain.  cons is rsp_cons as the loop
\* saw it, l the loop's result.
RespEnd(l, cons, max) ==
    IF l.nfrags > max \/ l.R.err
    THEN [l.R EXCEPT !.err = TRUE, !.cons = UAdd(cons, l.nfrags)]
    ELSE l.R

\* xennet_get_responses, the loop and what follows it: Rb is the state after
\* the extra-info records were taken.
RespChain(Rb, rsp, s, rp, mapped) ==
    RespEnd(IF Rb.bug THEN [R |-> Rb, nfrags |-> 1]
            ELSE RespLoop(Rb, rsp, s, Rb.cons, 1, rp, mapped),
            Rb.cons,
            MAX_SKB_FRAGS + (IF rsp.status <= RX_COPY_THRESHOLD THEN 1 ELSE 0))

\* xennet_get_responses: rsp is the poll loop's copy of the head response.
xennet_get_responses(R0, rsp, rp, mapped) ==
    RespChain(IF Bit(rsp.flags, XEN_NETRXF_extra_info)
              THEN xennet_get_extras(TakeRxSlot(R0, R0.cons), R0.cons, rp)
              ELSE TakeRxSlot(R0, R0.cons),
              rsp, R0.slots[xennet_rxidx(R0.cons)], rp, mapped)

\* xennet_set_skb_gso: fails on a zero size or an unknown type.
xennet_set_skb_gso(gso) == GsoSize(gso) # 0 /\ GsoType(gso) = XEN_NETIF_GSO_TYPE_TCPV4

\* Freeing the buffers of a queue (kfree_skb on each).
RECURSIVE FreeAll(_, _)
FreeAll(users, q) ==
    IF q = << >> THEN users
    ELSE IF Head(q) = 0 THEN FreeAll(users, Tail(q))
    ELSE FreeAll([users EXCEPT ![Head(q)] = @ - 1], Tail(q))

\* A poll loop that goes on until the ring is empty.
PollAll(cons, rp, work_done, budget) == cons # rp

\* xennet_poll, the condition of the while loop (line 946).
PollMore(cons, rp, work_done, budget) == cons # rp /\ work_done < budget

\* xennet_poll, the while loop: one iteration parses one packet.  i is
\* rx.rsp_cons, kept in R.cons.
RECURSIVE PollLoop(_, _, _, _, _)

\* An accepted packet that leaves rsp_cons where it was.
PollAcceptInPlace(R1, rsp) ==
    [R1 EXCEPT !.users = FreeAll(@, Tail(R1.list)),
               !.list = << >>,
               !.rxq = Append(@, [skb |-> Head(R1.list), nfrags |-> Len(R1.list),
                                  partial |-> FALSE])]

\* xennet_poll, a good packet: xennet_fill_frags attaches the buffers after the
\* first to it and frees them, np->rx.rsp_cons = ++i, and the packet goes on
\* rxq.  partial: its checksum has to be set up (csum_blank, or a GSO packet).
PollAccept(R1, rsp) ==
    [R1 EXCEPT !.users = FreeAll(@, Tail(R1.list)),
               !.cons = UAdd(UAdd(@, Len(R1.list) - 1), 1),
               !.list = << >>,
               !.rxq = Append(@, [skb |-> Head(R1.list), nfrags |-> Len(R1.list),
                                  partial |-> ExtraType(R1.extras) # 0
                                              \/ Bit(rsp.flags, XEN_NETRXF_csum_blank)]),
               !.seen = @ \cup {"ok"}]

\* An error path that does not count the error.
PollRejectQuiet(R1) == [R1 EXCEPT !.errq = @ \o R1.list, !.list = << >>]

\* xennet_poll, the label err: the buffers of the packet go to errq.
PollReject(R1) ==
    [R1 EXCEPT !.errq = @ \o R1.list, !.list = << >>, !.rx_errors = @ + 1]

\* A poll loop that an error packet ends.
PollStopOnError(R1, rsp, rp, work_done, budget, mapped) ==
    IF R1.bug THEN [R |-> R1, work_done |-> work_done]
    ELSE IF R1.err THEN [R |-> PollReject(R1), work_done |-> work_done]
    ELSE PollLoop(PollAccept(R1, rsp), rp, work_done + 1, budget, mapped)

\* xennet_poll, the loop body after xennet_get_responses returned R1 for the
\* head response rsp: the packet is rejected or accepted.
PollBody(R1, rsp, work_done) ==
    IF R1.bug THEN [R |-> R1, work_done |-> work_done]
    ELSE IF R1.err
    THEN [R |-> PollReject(R1), work_done |-> work_done]
    ELSE IF ExtraType(R1.extras) # 0 /\ ~xennet_set_skb_gso(R1.extras)
    THEN [R |-> PollReject([R1 EXCEPT !.cons = UAdd(@, Len(R1.list)),
                                      !.seen = @ \cup {"gso"}]),
          work_done |-> work_done]
    ELSE [R |-> PollAccept(R1, rsp), work_done |-> work_done + 1]

\* xennet_poll, the loop body and the return to the loop condition.
PollPacket(R1, rsp, rp, work_done, budget, mapped) ==
    IF R1.bug THEN PollBody(R1, rsp, work_done)
    ELSE PollLoop(PollBody(R1, rsp, work_done).R, rp,
                  PollBody(R1, rsp, work_done).work_done, budget, mapped)

\* xennet_poll, the start of the loop body: the head response at rsp_cons is
\* copied, extras is cleared and xennet_get_responses is called.
PollHead(R, rp, mapped) ==
    xennet_get_responses([R EXCEPT !.extras = NoExtra, !.err = FALSE, !.rej = FALSE,
                                   !.list = << >>],
                         R.ring[xennet_rxidx(R.cons)], rp, mapped)

PollLoop(R, rp, work_done, budget, mapped) ==
    IF ~PollMore(R.cons, rp, work_done, budget) \/ R.bug
    THEN [R |-> R, work_done |-> work_done]
    ELSE PollPacket(PollHead(R, rp, mapped), R.ring[xennet_rxidx(R.cons)], rp, work_done,
                    budget, mapped)

\* Delivery: every buffer of rxq leaves the driver (netif_receive_skb, or
\* kfree_skb when checksum_setup fails).
RECURSIVE Deliver(_, _)
Deliver(users, q) ==
    IF q = << >> THEN users
    ELSE Deliver([users EXCEPT ![Head(q).skb] = @ - 1], Tail(q))

\* No allocation failure in a refill: more buffers than a refill ever asks for.
NoFail == 2 * NET_RX_RING_SIZE + MaxAlloc

\* n buffers from the allocator are appended to the batch queue.
RECURSIVE Stage(_, _)
Stage(R, n) ==
    IF n = 0 THEN R
    ELSE LET skb == NewSkb(R.users)
         IN Stage([R EXCEPT !.users[skb] = 1, !.batch = Append(@, skb)], n - 1)

\* A push that publishes one request more than was written.
RxPushAhead(R, req_event) ==
    [R EXCEPT !.sreq = UAdd(R.pvt, 1), !.notify = PushNotify(R.sreq, R.pvt, req_event)]

\* RING_PUSH_REQUESTS_AND_CHECK_NOTIFY on the RX ring.
RxPush(R, req_event) ==
    [R EXCEPT !.sreq = R.pvt, !.notify = PushNotify(R.sreq, R.pvt, req_event)]

\* xennet_alloc_rx_buffers, the loop after the label refill: every staged buffer
\* gets the slot of its ring position, a grant bound for the peer to write, and
\* its request.
RECURSIVE RefillLoop(_, _)
RefillLoop(R, pos) ==
    IF R.batch = << >> \/ R.bug THEN [R EXCEPT !.pvt = IF R.bug THEN @ ELSE pos]
    ELSE LET skb == Head(R.batch)
             id == xennet_rxidx(pos)
         IN IF R.slots[id].skb # 0 \/ R.pool = << >>
            THEN [R EXCEPT !.bug = TRUE]
            ELSE LET ref == Head(R.pool)
                 IN RefillLoop([R EXCEPT !.batch = Tail(@),
                                         !.slots[id] = [skb |-> skb, gref |-> ref],
                                         !.pool = Tail(@),
                                         !.g[ref] = "bound",
                                         !.ring[id] = RxReq(@, id, ref)],
                               UAdd(pos, 1))

\* A refill that never raises the target.
GrowNever(target, max, req_prod, rsp_prod) == target

\* A growth rule without the cap.
GrowUncapped(target, max, req_prod, rsp_prod) ==
    IF USub(req_prod, rsp_prod) < target \div 4 THEN target * 2 ELSE target

\* The growth rule of xennet_alloc_rx_buffers (lines 310-312).
GrowTarget(target, max, req_prod, rsp_prod) ==
    IF USub(req_prod, rsp_prod) < target \div 4
    THEN (IF target * 2 > max THEN max ELSE target * 2)
    ELSE target

\* xennet_alloc_rx_buffers: the buffers the batch queue lacks (batch_target
\* minus its length, if positive).
BatchNeed(R) ==
    LET batch_target == ToSigned(USub(R.target, USub(R.pvt, R.cons)))
    IN IF batch_target > Len(R.batch) THEN batch_target - Len(R.batch) ELSE 0

\* A refill that posts a small batch when a surplus is unpublished.
AllocPostFlush(Rb, req_prod, rsp_prod, req_event) ==
    IF Len(Rb.batch) < Rb.target \div 2 /\ ~(req_prod > Rb.sreq) THEN Rb
    ELSE RxPush(RefillLoop(Rb, req_prod), req_event)

\* xennet_alloc_rx_buffers after the allocation loop ran to its end or stopped
\* with the timer armed: is posting the batch worthwhile?  If so the target
\* may grow and the batch is posted.
AllocPost(Rb, req_prod, rsp_prod, req_event) ==
    IF Len(Rb.batch) < Rb.target \div 2
    THEN (IF req_prod > Rb.sreq THEN RxPush(Rb, req_event) ELSE Rb)
    ELSE RxPush(RefillLoop([Rb EXCEPT !.target = GrowTarget(@, Rb.max, req_prod, rsp_prod)],
                           req_prod),
                req_event)

\* An allocation loop that never arms the timer.
AllocNoTimer(Ra, failed, req_prod, rsp_prod, req_event) ==
    IF failed /\ Len(Ra.batch) # 0
    THEN RxPush(RefillLoop(Ra, req_prod), req_event)
    ELSE AllocPost(Ra, req_prod, rsp_prod, req_event)

\* An allocation loop that arms the timer whenever the allocator fails.
AllocAlwaysTimer(Ra, failed, req_prod, rsp_prod, req_event) ==
    AllocPost(IF failed THEN [Ra EXCEPT !.timer = TRUE] ELSE Ra, req_prod, rsp_prod, req_event)

\* xennet_alloc_rx_buffers after the allocation loop, which failed or not: a
\* failure with buffers staged goes straight to the label refill, a failure
\* with none arms the timer.
AllocStaged(Ra, failed, req_prod, rsp_prod, req_event) ==
    IF failed /\ Len(Ra.batch) # 0
    THEN RxPush(RefillLoop(Ra, req_prod), req_event)
    ELSE AllocPost(IF failed THEN [Ra EXCEPT !.timer = TRUE] ELSE Ra,
                   req_prod, rsp_prod, req_event)

\* xennet_alloc_rx_buffers with the link up.  rsp_prod and req_event are the
\* shared values it reads; the allocator fails after fail_after buffers (NoFail:
\* it does not fail).
xennet_alloc_rx_buffers(R, rsp_prod, req_event, fail_after) ==
    AllocStaged(Stage(R, Min(fail_after, BatchNeed(R))), fail_after < BatchNeed(R),
                R.pvt, rsp_prod, req_event)

\* A shrink rule without the clamp.
ShrinkUnclamped(target, min, prod_pvt, rsp_prod) ==
    IF USub(prod_pvt, rsp_prod) > (3 * target) \div 4 THEN USub(target, 1) ELSE target

\* The shrink rule of xennet_poll (lines 1027-1030).
ShrinkTarget(target, min, prod_pvt, rsp_prod) ==
    IF USub(prod_pvt, rsp_prod) > (3 * target) \div 4
    THEN (IF USub(target, 1) < min THEN min ELSE USub(target, 1))
    ELSE target

\* A teardown that forgets the pools.
KeepPool(g, pool) == g

\* A transmit routine that does not look at the segmentation offload.
MustDropNoGso(p) ==
    \/ SlotCount(p) > MAX_SKB_FRAGS + 1
    \/ ~carrier
    \/ (SlotCount(p) > 1 /\ ~features.sg)

\* A transmit routine that does not look at the link.
MustDropLinkUp(p) == SlotCount(p) > MAX_SKB_FRAGS + 1

\* Grant references of a pool go back to the global free list
\* (gnttab_free_grant_references).
FreePool(g, pool) == [r \in Refs |-> IF r \in SeqToSet(pool) THEN "global" ELSE g[r]]

\* --------------------------------------------------------------- the state
vars == << carrier, running, qstopped, napi, connected, crashed, nconnect,
           irq_pending, tx, txs, tx_ring, tx_slots, tx_skb_freelist,
           gref_tx_head, gref_rx_head, gnt, gnt_mapped, skb_users, txc,
           rx, rxs, rx_ring, rx_slots, rx_target, rx_min_target, rx_max_target,
           rx_batch, timer_armed, rxc, features, stats, hist, teardown >>

rxvars == << rx, rxs, rx_ring, rx_slots, rx_batch, timer_armed >>
tgtvars == << rx_target, rx_min_target, rx_max_target >>
devvars == << carrier, running, qstopped, connected, nconnect, features, teardown >>

ZeroRing == [req_prod |-> 0, req_event |-> 0, rsp_prod |-> 0, rsp_event |-> 0]
\* SHARED_RING_INIT
InitRing == [req_prod |-> 0, req_event |-> 1, rsp_prod |-> 0, rsp_event |-> 1]
ZeroFront == [req_prod_pvt |-> 0, rsp_cons |-> 0]
NoPacket == [off |-> 0, len |-> 0, frags |-> 0, gso |-> FALSE]
TxIdle == [owner |-> "none", pc |-> "none", prod |-> 0, first |-> 0, pkt |-> NoPacket,
           notify |-> FALSE]
RxIdle == [owner |-> "none", pc |-> "none", work_done |-> 0, shrunk |-> FALSE,
           full |-> FALSE, queued |-> 0, left |-> FALSE,
           rp |-> 0, head |-> NoExtra, list |-> << >>]
\* The value of rx_max_target before the first connect (0xbeefbeef, of which
\* the low 16 bits are kept: any value above RX_MAX_TARGET acts the same).
RX_POISON == 48879

\* xennet_create_dev: the device exists, is down and has no rings.
Init ==
    /\ carrier = FALSE /\ running = FALSE /\ qstopped = FALSE
    /\ napi = "disabled" /\ connected = FALSE /\ crashed = FALSE
    /\ nconnect = 0 /\ irq_pending = FALSE
    /\ tx = ZeroFront /\ txs = ZeroRing
    /\ tx_ring = [i \in TxIds |-> NoSlot]
    /\ tx_slots = [i \in TxIds |-> FreeSlot(0)]
    /\ tx_skb_freelist = 0
    /\ gref_tx_head = << >> /\ gref_rx_head = << >>
    /\ gnt = [r \in Refs |-> "global"]
    /\ gnt_mapped = {}
    /\ skb_users = [k \in Skbs |-> 0]
    /\ txc = TxIdle
    /\ rx = ZeroFront /\ rxs = ZeroRing
    /\ rx_ring = [i \in RxIds |-> NoExtra]
    /\ rx_slots = [i \in RxIds |-> EmptyRxSlot]
    /\ rx_target = RX_DFL_MIN_TARGET
    /\ rx_min_target = RX_DFL_MIN_TARGET
    /\ rx_max_target = RX_POISON
    /\ rx_batch = << >>
    /\ timer_armed = FALSE
    /\ rxc = RxIdle
    /\ features = [sg |-> TRUE, tso |-> TRUE]
    /\ stats = [tx_dropped |-> 0, rx_errors |-> 0]
    /\ hist = [tx_inflight |-> {}, id_dup |-> FALSE, rx_seen |-> {},
               last_drop |-> NoPacket, xmit_ret |-> "none", frags |-> {}]
    /\ teardown = "none"

\* napi_schedule: schedules the poll task unless it is disabled or scheduled.
napi_schedule(n) == IF n = "idle" THEN "sched" ELSE n

\* RING_HAS_UNCONSUMED_RESPONSES
HasUnconsumed(rsp_prod, rsp_cons) == USub(rsp_prod, rsp_cons) # 0

\* The driver's RX variables take the values of R.
SetRx(R) ==
    /\ rx' = [req_prod_pvt |-> R.pvt, rsp_cons |-> R.cons]
    /\ rx_ring' = R.ring
    /\ rx_slots' = R.slots
    /\ gref_rx_head' = R.pool
    /\ rx_batch' = R.batch
    /\ rx_target' = R.target
    /\ timer_armed' = R.timer

\* Nobody holds every lock.
NoLock == TRUE

\* spin_lock on tx_lock and on rx_lock: the lock can be taken when nobody holds it.
TxLockFree == txc.owner = "none"
RxLockFree == rxc.owner = "none"
Locks == TxLockFree /\ RxLockFree

\* The event channel is bound to xennet_interrupt: from setup_netfront to
\* unbind_from_irqhandler.
IrqBound == connected /\ teardown \in {"none", "unbind"}

\* ----------------------------------------------------------- the life cycle
\* A teardown that leaves the TX slots alone.
DiscTxNone(T, i, mapped) == T

\* xennet_disconnect_backend, the TX slot loop: an owned slot's grant is ended
\* and released, or left alone (leaked) while the peer maps it; its buffer
\* reference is dropped.
RECURSIVE DiscTx(_, _, _)
DiscTx(T, i, mapped) ==
    IF i = NET_TX_RING_SIZE THEN T
    ELSE LET s == T.slots[i] IN
         IF s.is_link THEN DiscTx(T, i + 1, mapped)
         ELSE LET T1 == IF s.gref = GRANT_INVALID_REF THEN T
                        ELSE IF EndAccessOk(mapped, s.gref)
                        THEN [T EXCEPT !.g[s.gref] = "pool", !.pool = << s.gref >> \o @]
                        ELSE [T EXCEPT !.g[s.gref] = "leaked"]
                  T2 == IF s.skb = 0 THEN T1 ELSE [T1 EXCEPT !.users[s.skb] = @ - 1]
              IN DiscTx(T2, i + 1, mapped)

\* A teardown that leaves the RX slots alone.
DiscRxNone(T, slots, i, mapped) == T

\* xennet_disconnect_backend, the RX slot loop.  The grants it releases go to
\* the list headed by gref_tx_head (line 1175), here T.pool.
RECURSIVE DiscRx(_, _, _, _)
DiscRx(T, slots, i, mapped) ==
    IF i = NET_RX_RING_SIZE THEN T
    ELSE LET s == slots[i]
             T1 == IF s.gref = GRANT_INVALID_REF THEN T
                   ELSE IF EndAccessOk(mapped, s.gref)
                   THEN [T EXCEPT !.g[s.gref] = "pool", !.pool = << s.gref >> \o @]
                   ELSE [T EXCEPT !.g[s.gref] = "leaked"]
             T2 == IF s.skb = 0 THEN T1 ELSE [T1 EXCEPT !.users[s.skb] = @ - 1]
         IN DiscRx(T2, slots, i + 1, mapped)

\* xennet_disconnect_backend (resume, remove, and the start of every connect),
\* on a connected device or not.
Disconnect ==
    /\ ~crashed /\ Locks /\ teardown = "none"
    /\ \E T \in {DiscRx(DiscTx(TxState, 0, gnt_mapped), rx_slots, 0, gnt_mapped)} :
          /\ gnt' = FreePool(FreePool(T.g, T.pool), gref_rx_head)
          /\ skb_users' = T.users
          /\ hist' = [hist EXCEPT !.tx_inflight = {}]
    /\ carrier' = FALSE /\ connected' = FALSE /\ irq_pending' = FALSE
    /\ tx_slots' = [i \in TxIds |-> FreeSlot(0)]
    /\ tx_skb_freelist' = 0
    /\ rx_slots' = [i \in RxIds |-> EmptyRxSlot]
    /\ gref_tx_head' = << >> /\ gref_rx_head' = << >>
    /\ txs' = ZeroRing /\ rxs' = ZeroRing
    /\ tx_ring' = [i \in TxIds |-> NoSlot]
    /\ rx_ring' = [i \in RxIds |-> NoExtra]
    /\ UNCHANGED << running, qstopped, napi, crashed, nconnect, tx, rx, gnt_mapped,
                    txc, rxc, rx_batch, timer_armed, tgtvars, features, stats, teardown >>

\* xennet_disconnect_backend, step by step, for the specifications in which
\* other contexts run while the device is torn down.  First the link is marked
\* down, with rx_lock and tx_lock held (lines 1125-1129).
DiscCarrierOff ==
    /\ ~crashed /\ connected /\ Locks /\ teardown = "none"
    /\ carrier' = FALSE
    /\ teardown' = "unbind"
    /\ UNCHANGED << running, qstopped, connected, nconnect, features, napi, crashed,
                    irq_pending, txvars, gref_rx_head, gnt, gnt_mapped, skb_users, txc,
                    rxvars, tgtvars, rxc, stats, hist >>

\* unbind_from_irqhandler (lines 1131-1133)
DiscUnbind ==
    /\ ~crashed /\ teardown = "unbind"
    /\ irq_pending' = FALSE
    /\ teardown' = "rings"
    /\ UNCHANGED << carrier, running, qstopped, connected, nconnect, features, napi,
                    crashed, txvars, gref_rx_head, gnt, gnt_mapped, skb_users, txc,
                    rxvars, tgtvars, rxc, stats, hist >>

\* xennet_end_access on the pages of both rings: the ring memory is freed and
\* the ring pointers are cleared (lines 1135-1144).
DiscRings ==
    /\ ~crashed /\ teardown = "rings"
    /\ connected' = FALSE
    /\ txs' = ZeroRing /\ rxs' = ZeroRing
    /\ tx_ring' = [i \in TxIds |-> NoSlot]
    /\ rx_ring' = [i \in RxIds |-> NoExtra]
    /\ teardown' = "slots"
    /\ UNCHANGED << carrier, running, qstopped, nconnect, features, napi, crashed,
                    irq_pending, tx, tx_slots, tx_skb_freelist, gref_tx_head,
                    gref_rx_head, gnt, gnt_mapped, skb_users, txc, rx, rx_slots,
                    rx_batch, timer_armed, tgtvars, rxc, stats, hist >>

\* The two slot loops: the grants of the descriptors are ended and released,
\* or leaked, the buffers and the slot tables are freed (lines 1146-1186).
DiscSlots ==
    /\ ~crashed /\ teardown = "slots"
    /\ \E T \in {DiscRx(DiscTx(TxState, 0, gnt_mapped), rx_slots, 0, gnt_mapped)} :
          /\ gnt' = T.g
          /\ gref_tx_head' = T.pool
          /\ skb_users' = T.users
          /\ hist' = [hist EXCEPT !.tx_inflight = {}]
    /\ tx_slots' = [i \in TxIds |-> FreeSlot(0)]
    /\ tx_skb_freelist' = 0
    /\ rx_slots' = [i \in RxIds |-> EmptyRxSlot]
    /\ teardown' = "pools"
    /\ UNCHANGED << carrier, running, qstopped, connected, nconnect, features, napi,
                    crashed, irq_pending, tx, txs, tx_ring, gref_rx_head, gnt_mapped,
                    txc, rx, rxs, rx_ring, rx_batch, timer_armed, tgtvars, rxc, stats >>

\* gnttab_free_grant_references on both pools (lines 1188-1193).
DiscPools ==
    /\ ~crashed /\ teardown = "pools"
    /\ gnt' = FreePool(FreePool(gnt, gref_tx_head), gref_rx_head)
    /\ gref_tx_head' = << >> /\ gref_rx_head' = << >>
    /\ teardown' = "none"
    /\ UNCHANGED << carrier, running, qstopped, connected, nconnect, features, napi,
                    crashed, irq_pending, tx, txs, tx_ring, tx_slots, tx_skb_freelist,
                    gnt_mapped, skb_users, txc, rxvars, tgtvars, rxc, stats, hist >>

\* A collector that never wakes the queue.
NeverWake(stopped, prod_pvt, rsp_cons) == stopped

\* xennet_maybe_wake_tx
MaybeWake(stopped, prod_pvt, rsp_cons) ==
    IF stopped /\ SlotAvailable(prod_pvt, rsp_cons) /\ running THEN FALSE ELSE stopped

\* setup_netfront and xennet_connect on a device without rings: the slot
\* tables, the two grant pools and the rings are set up, the features are
\* negotiated, the link goes up, then xennet_tx_buf_gc (on the empty ring),
\* xennet_alloc_rx_buffers and napi_schedule.
Connect(sg, tso, fail_after) ==
    /\ ~crashed /\ ~connected /\ Locks /\ teardown = "none" /\ nconnect < MaxConnects
    /\ \E txrefs \in {LowestRefs(gnt, TX_MAX_TARGET, 1)} :
       \E rxrefs \in {LowestRefs(TakeRefs(gnt, txrefs), RX_MAX_TARGET, 1)} :
       \E R \in {xennet_alloc_rx_buffers(
                    [RxState EXCEPT !.ring = [i \in RxIds |-> NoExtra],
                                    !.slots = [i \in RxIds |-> EmptyRxSlot],
                                    !.pool = rxrefs,
                                    !.g = TakeRefs(TakeRefs(gnt, txrefs), rxrefs),
                                    !.pvt = 0, !.cons = 0,
                                    !.max = RX_MAX_TARGET, !.sreq = 0],
                    0, 1, fail_after)} :
          /\ Len(txrefs) = TX_MAX_TARGET /\ Len(rxrefs) = RX_MAX_TARGET
          /\ gref_tx_head' = txrefs
          /\ SetRx(R)
          /\ gnt' = R.g
          /\ skb_users' = R.users
          /\ rxs' = [InitRing EXCEPT !.req_prod = R.sreq]
          /\ crashed' = R.bug
    /\ tx_slots' = [i \in TxIds |-> FreeSlot(i + 1)]
    /\ tx_skb_freelist' = 0
    /\ tx' = ZeroFront
    \* xennet_tx_buf_gc on the new ring: rsp_event = 0 + ((0 - 0) >> 1) + 1
    /\ txs' = InitRing
    /\ tx_ring' = [i \in TxIds |-> NoSlot]
    /\ qstopped' = MaybeWake(qstopped, 0, 0)
    /\ rx_max_target' = RX_MAX_TARGET
    /\ features' = [sg |-> sg, tso |-> tso]
    /\ carrier' = TRUE /\ connected' = TRUE /\ nconnect' = nconnect + 1
    /\ napi' = napi_schedule(napi)
    /\ UNCHANGED << running, irq_pending, gnt_mapped, txc, rxc, rx_min_target,
                    stats, hist, teardown >>

\* xennet_open
Open(fail_after) ==
    /\ ~crashed /\ ~running /\ RxLockFree
    /\ running' = TRUE
    /\ qstopped' = FALSE
    /\ IF carrier
       THEN \E R \in {xennet_alloc_rx_buffers(RxState, rxs.rsp_prod, rxs.req_event,
                                               fail_after)} :
               /\ SetRx(R)
               /\ gnt' = R.g /\ skb_users' = R.users
               /\ rxs' = [rxs EXCEPT !.req_prod = R.sreq, !.rsp_event = UAdd(R.cons, 1)]
               /\ crashed' = R.bug
               /\ napi' = IF HasUnconsumed(rxs.rsp_prod, R.cons) THEN "sched" ELSE "idle"
       ELSE /\ fail_after = NoFail
            /\ napi' = "idle"
            /\ UNCHANGED << rxvars, rx_target, gref_rx_head, gnt, skb_users, crashed >>
    /\ UNCHANGED << carrier, connected, nconnect, irq_pending, txvars, gnt_mapped, txc,
                    rxc, rx_min_target, rx_max_target, features, stats, hist, teardown >>

\* xennet_close: the queue is stopped and napi_disable waits for the poll task.
Close ==
    /\ ~crashed /\ running /\ napi = "idle" /\ RxLockFree
    /\ running' = FALSE
    /\ qstopped' = TRUE
    /\ napi' = "disabled"
    /\ UNCHANGED << carrier, connected, crashed, nconnect, irq_pending, txvars,
                    gref_rx_head, gnt, gnt_mapped, skb_users, txc, rxvars, tgtvars, rxc,
                    features, stats, hist, teardown >>

\* A BUG() or BUG_ON() stops the machine where it stands.
Crash ==
    /\ crashed' = TRUE
    /\ UNCHANGED << devvars, napi, irq_pending, txvars, gref_rx_head, gnt, gnt_mapped,
                    skb_users, txc, rxvars, tgtvars, rxc, stats, hist >>

\* ------------------------------------------------------------------ transmit
\* xennet_start_xmit, the paths to the label drop: too many slots, no carrier,
\* scatter-gather or segmentation offload not negotiated.
MustDrop(p) ==
    \/ SlotCount(p) > MAX_SKB_FRAGS + 1
    \/ ~carrier
    \/ (SlotCount(p) > 1 /\ ~features.sg)
    \/ (p.gso /\ ~features.tso)

\* A transmit routine that decides to drop after it has built the requests.
XmitThenDrop(T0, p, i, drop) == TxSubmit(T0, p, i)

\* xennet_start_xmit up to the push: a packet that must be dropped goes to the
\* label drop before anything is written, any other is built in the ring.
XmitOutcome(T0, p, i, drop) == IF drop THEN [T |-> T0, prod |-> i] ELSE TxSubmit(T0, p, i)

\* xennet_start_xmit, the label drop: tx_dropped is counted, the buffer is freed
\* (it never got a name in skb_users) and NETDEV_TX_OK is returned.
StartXmitDrop(p) ==
    /\ ~crashed /\ running /\ ~qstopped /\ TxLockFree
    /\ MustDrop(p)
    /\ stats.tx_dropped < MaxStat
    /\ \E r \in {XmitOutcome(TxState, p, tx.req_prod_pvt, MustDrop(p))} :
          /\ tx_ring' = r.T.ring /\ tx_slots' = r.T.slots /\ tx_skb_freelist' = r.T.fl
          /\ gref_tx_head' = r.T.pool /\ gnt' = r.T.g /\ skb_users' = r.T.users
          /\ tx' = [tx EXCEPT !.req_prod_pvt = r.prod]
    /\ stats' = [stats EXCEPT !.tx_dropped = @ + 1]
    /\ hist' = [hist EXCEPT !.last_drop = p, !.xmit_ret = "NETDEV_TX_OK"]
    /\ UNCHANGED << devvars, napi, crashed, irq_pending, txs, gref_rx_head,
                    gnt_mapped, txc, rxvars, tgtvars, rxc >>

\* xennet_start_xmit from taking tx_lock to the push of the requests and the
\* notification of the peer; xennet_tx_buf_gc follows under the same lock.
StartXmit(p) ==
    /\ ~crashed /\ running /\ ~qstopped /\ TxLockFree
    /\ ~MustDrop(p)
    /\ tx.req_prod_pvt < MaxTxProd
    /\ \E i \in {tx.req_prod_pvt} :
       \E r \in {TxSubmit(TxState, p, i)} :
       \E T \in {r.T} :
          IF T.bug THEN Crash
          ELSE /\ tx_ring' = T.ring /\ tx_slots' = T.slots /\ tx_skb_freelist' = T.fl
               /\ gref_tx_head' = T.pool /\ gnt' = T.g /\ skb_users' = T.users
               /\ tx' = [tx EXCEPT !.req_prod_pvt = r.prod]
               /\ txs' = [txs EXCEPT !.req_prod = r.prod]
               /\ hist' = [hist EXCEPT !.tx_inflight = T.infl, !.id_dup = T.dup,
                                       !.xmit_ret = "NETDEV_TX_OK"]
               /\ txc' = [TxIdle EXCEPT !.owner = "xmit", !.pc = "gc_read",
                                        !.first = i, !.pkt = p,
                                        !.notify = PushNotify(txs.req_prod, r.prod,
                                                              txs.req_event)]
               /\ UNCHANGED << devvars, napi, crashed, irq_pending, gref_rx_head,
                               gnt_mapped, rxvars, tgtvars, rxc, stats >>

\* xennet_start_xmit statement by statement, as the peer may see it.  First the
\* request of the head and the GSO record are written and tx.req_prod_pvt is
\* set behind them (lines 528-580).
XmitHead(p) ==
    /\ ~crashed /\ running /\ ~qstopped /\ TxLockFree
    /\ ~MustDrop(p)
    /\ tx.req_prod_pvt < MaxPubProd
    /\ \E i \in {tx.req_prod_pvt} :
       \E T \in {TxHead(TxState, NewSkb(skb_users), p, i)} :
          IF T.bug THEN Crash
          ELSE /\ tx_ring' = T.ring /\ tx_slots' = T.slots /\ tx_skb_freelist' = T.fl
               /\ gref_tx_head' = T.pool /\ gnt' = T.g /\ skb_users' = T.users
               /\ tx' = [tx EXCEPT !.req_prod_pvt = IF p.gso THEN i + 2 ELSE i + 1]
               /\ hist' = [hist EXCEPT !.tx_inflight = T.infl, !.id_dup = T.dup]
               /\ txc' = [TxIdle EXCEPT !.owner = "xmit", !.pc = "frags",
                                        !.first = i, !.pkt = p]
               /\ UNCHANGED << devvars, napi, crashed, irq_pending, txs, gref_rx_head,
                               gnt_mapped, rxvars, tgtvars, rxc, stats >>

\* Then xennet_make_frags writes the other requests, flagging each request it
\* leaves behind, and the first request gets the length of the whole packet
\* (lines 582-583).
XmitFrags ==
    /\ ~crashed /\ txc.pc = "frags"
    /\ \E i \in {txc.first} :
       \E skb \in {tx_slots[tx_ring[i % NET_TX_RING_SIZE].id].skb} :
       \E r \in {TxSize(xennet_make_frags(TxState, skb, i, tx.req_prod_pvt, txc.pkt.off,
                                          txc.pkt.len, txc.pkt.frags), txc.pkt, i)} :
       \E T \in {r.T} :
          IF T.bug THEN Crash
          ELSE /\ tx_ring' = T.ring /\ tx_slots' = T.slots /\ tx_skb_freelist' = T.fl
               /\ gref_tx_head' = T.pool /\ gnt' = T.g /\ skb_users' = T.users
               /\ tx' = [tx EXCEPT !.req_prod_pvt = r.prod]
               /\ hist' = [hist EXCEPT !.tx_inflight = T.infl, !.id_dup = T.dup]
               /\ txc' = [txc EXCEPT !.pc = "push"]
               /\ UNCHANGED << devvars, napi, crashed, irq_pending, txs, gref_rx_head,
                               gnt_mapped, rxvars, tgtvars, rxc, stats >>

\* Then the requests are pushed (line 585); xennet_tx_buf_gc follows.
XmitPush ==
    /\ ~crashed /\ txc.pc = "push"
    /\ txs' = [txs EXCEPT !.req_prod = tx.req_prod_pvt]
    /\ txc' = [txc EXCEPT !.pc = "gc_read",
                          !.notify = PushNotify(txs.req_prod, tx.req_prod_pvt,
                                                txs.req_event)]
    /\ hist' = [hist EXCEPT !.xmit_ret = "NETDEV_TX_OK"]
    /\ UNCHANGED << devvars, napi, crashed, irq_pending, tx, tx_ring, tx_slots,
                    tx_skb_freelist, gref_tx_head, gref_rx_head, gnt, gnt_mapped,
                    skb_users, rxvars, tgtvars, rxc, stats >>

\* xennet_tx_buf_gc: prod is read, the responses below it are collected and
\* tx.rsp_cons moves up to prod.
GcRead ==
    /\ ~crashed /\ txc.pc = "gc_read"
    /\ \E prod \in {txs.rsp_prod} :
       \E T \in {GcScan(TxState, tx.rsp_cons, prod, gnt_mapped)} :
          IF T.bug THEN Crash
          ELSE /\ tx_slots' = T.slots /\ tx_skb_freelist' = T.fl
               /\ gref_tx_head' = T.pool /\ gnt' = T.g /\ skb_users' = T.users
               /\ tx' = [tx EXCEPT !.rsp_cons = prod]
               /\ hist' = [hist EXCEPT !.tx_inflight = T.infl]
               /\ txc' = [txc EXCEPT !.pc = "gc_event", !.prod = prod]
               /\ UNCHANGED << devvars, napi, crashed, irq_pending, txs, tx_ring,
                               gref_rx_head, gnt_mapped, rxvars, tgtvars, rxc, stats >>

\* The event marker xennet_tx_buf_gc asks for.
TxEvent(prod, req_prod) == UAdd(UAdd(prod, USub(req_prod, prod) \div 2), 1)

\* xennet_tx_buf_gc: the new rsp_event is written to the shared ring.
GcEvent ==
    /\ ~crashed /\ txc.pc = "gc_event"
    /\ txs' = [txs EXCEPT !.rsp_event = TxEvent(txc.prod, txs.req_prod)]
    /\ txc' = [txc EXCEPT !.pc = "gc_check"]
    /\ UNCHANGED << devvars, napi, crashed, irq_pending, tx, tx_ring, tx_slots,
                    tx_skb_freelist, gref_tx_head, gref_rx_head, gnt, gnt_mapped,
                    skb_users, rxvars, tgtvars, rxc, stats, hist >>

\* A collector that never looks at rsp_prod again.
GcOnce(prod, rsp_prod) == FALSE

\* xennet_tx_buf_gc: whether the loop goes round again.
GcAgain(prod, rsp_prod) == prod # rsp_prod

\* xennet_tx_buf_gc: rsp_prod is read again and the loop repeats.
GcLoop ==
    /\ ~crashed /\ txc.pc = "gc_check"
    /\ GcAgain(txc.prod, txs.rsp_prod)
    /\ txc' = [txc EXCEPT !.pc = "gc_read"]
    /\ UNCHANGED << devvars, napi, crashed, irq_pending, txvars, gref_rx_head, gnt,
                    gnt_mapped, skb_users, rxvars, tgtvars, rxc, stats, hist >>

\* xennet_tx_buf_gc returns to xennet_start_xmit: xennet_maybe_wake_tx, then the
\* queue is stopped unless a worst-case packet still fits, and tx_lock is dropped.
GcExitXmit ==
    /\ ~crashed /\ txc.pc = "gc_check" /\ txc.owner = "xmit"
    /\ ~GcAgain(txc.prod, txs.rsp_prod)
    /\ qstopped' = IF ~netfront_tx_slot_available THEN TRUE
                   ELSE MaybeWake(qstopped, tx.req_prod_pvt, tx.rsp_cons)
    /\ txc' = TxIdle
    /\ UNCHANGED << carrier, running, connected, nconnect, features, napi, crashed,
                    irq_pending, txvars, gref_rx_head, gnt, gnt_mapped, skb_users,
                    rxvars, tgtvars, rxc, stats, hist, teardown >>

\* xennet_interrupt takes tx_lock.
IrqEnter ==
    /\ ~crashed /\ irq_pending /\ IrqBound /\ TxLockFree
    /\ irq_pending' = FALSE
    /\ txc' = IF carrier THEN [TxIdle EXCEPT !.owner = "irq", !.pc = "gc_read"]
              ELSE TxIdle
    /\ UNCHANGED << devvars, napi, crashed, txvars, gref_rx_head, gnt, gnt_mapped,
                    skb_users, rxvars, tgtvars, rxc, stats, hist >>

\* xennet_tx_buf_gc returns to xennet_interrupt: xennet_maybe_wake_tx, then the
\* poll task is scheduled if the RX ring has responses, and tx_lock is dropped.
GcExitIrq ==
    /\ ~crashed /\ txc.pc = "gc_check" /\ txc.owner = "irq"
    /\ ~GcAgain(txc.prod, txs.rsp_prod)
    /\ qstopped' = MaybeWake(qstopped, tx.req_prod_pvt, tx.rsp_cons)
    /\ napi' = IF HasUnconsumed(rxs.rsp_prod, rx.rsp_cons) THEN napi_schedule(napi)
               ELSE napi
    /\ txc' = TxIdle
    /\ UNCHANGED << carrier, running, connected, nconnect, features, crashed,
                    irq_pending, txvars, gref_rx_head, gnt, gnt_mapped, skb_users,
                    rxvars, tgtvars, rxc, stats, hist, teardown >>

\* xennet_interrupt as one step: tx_lock, xennet_tx_buf_gc until it returns, the
\* check of the RX ring, napi_schedule.
Interrupt ==
    /\ ~crashed /\ irq_pending /\ IrqBound /\ TxLockFree
    /\ irq_pending' = FALSE
    /\ IF ~carrier
       THEN UNCHANGED << napi, crashed, qstopped, txvars, gnt, skb_users, hist >>
       ELSE \E prod \in {txs.rsp_prod} :
            \E T \in {GcScan(TxState, tx.rsp_cons, prod, gnt_mapped)} :
               IF T.bug
               THEN /\ crashed' = TRUE
                    /\ UNCHANGED << napi, qstopped, txvars, gnt, skb_users, hist >>
               ELSE /\ tx_slots' = T.slots /\ tx_skb_freelist' = T.fl
                    /\ gref_tx_head' = T.pool /\ gnt' = T.g /\ skb_users' = T.users
                    /\ tx' = [tx EXCEPT !.rsp_cons = prod]
                    /\ txs' = [txs EXCEPT !.rsp_event = TxEvent(prod, txs.req_prod)]
                    /\ hist' = [hist EXCEPT !.tx_inflight = T.infl]
                    /\ qstopped' = MaybeWake(qstopped, tx.req_prod_pvt, prod)
                    /\ napi' = IF HasUnconsumed(rxs.rsp_prod, rx.rsp_cons)
                               THEN napi_schedule(napi) ELSE napi
                    /\ UNCHANGED << crashed, tx_ring >>
    /\ UNCHANGED << carrier, running, connected, nconnect, features, gref_rx_head,
                    gnt_mapped, txc, rxvars, tgtvars, rxc, stats, teardown >>

\* ------------------------------------------------------ the peer, TX side
\* The backend completes the oldest request it has not answered: a response
\* with the request's id (a null response for an extra-info slot) replaces the
\* request, rsp_prod moves on and the driver is notified if rsp_event asks so.
PeerTxRespond ==
    /\ ~crashed /\ connected
    /\ txs.rsp_prod # txs.req_prod
    /\ LET pos == txs.rsp_prod % NET_TX_RING_SIZE
           s == tx_ring[pos]
           new == UAdd(txs.rsp_prod, 1)
       IN /\ s.t \in {"req", "gso"}
          /\ tx_ring' = [tx_ring EXCEPT ![pos] =
                            IF s.t = "req" THEN TxRsp(s.id, XEN_NETIF_RSP_OKAY)
                            ELSE TxRsp(0, XEN_NETIF_RSP_NULL)]
          /\ txs' = [txs EXCEPT !.rsp_prod = new]
          /\ irq_pending' = (irq_pending
                              \/ (IrqBound /\ PushNotify(txs.rsp_prod, new, txs.rsp_event)))
    /\ UNCHANGED << devvars, napi, crashed, tx, tx_slots, tx_skb_freelist, gref_tx_head,
                    gref_rx_head, gnt, gnt_mapped, skb_users, txc, rxvars, tgtvars, rxc,
                    stats, hist >>

\* A backend that publishes a TX response of null status for a request that
\* was never issued: rsp_prod moves beyond req_prod, by MaxOverrun at most.
PeerTxOverrun ==
    /\ ~crashed /\ connected
    /\ USub(txs.rsp_prod, txs.req_prod) < MaxOverrun
    /\ tx_ring' = [tx_ring EXCEPT ![txs.rsp_prod % NET_TX_RING_SIZE] =
                      TxRsp(0, XEN_NETIF_RSP_NULL)]
    /\ txs' = [txs EXCEPT !.rsp_prod = UAdd(@, 1)]
    /\ irq_pending' = (irq_pending
                        \/ (IrqBound /\ PushNotify(txs.rsp_prod, UAdd(txs.rsp_prod, 1),
                                                   txs.rsp_event)))
    /\ UNCHANGED << devvars, napi, crashed, tx, tx_slots, tx_skb_freelist, gref_tx_head,
                    gref_rx_head, gnt, gnt_mapped, skb_users, txc, rxvars, tgtvars, rxc,
                    stats, hist >>

\* The ids a backend can put in a TX response: every id of the slot table and
\* one beyond it.
PeerIds == 0 .. NET_TX_RING_SIZE

\* A backend that answers the oldest pending TX request with an id of its own
\* choice: the request's id, the id of another descriptor, an id already
\* completed or one that was never issued.
PeerTxRespondId(id) ==
    /\ ~crashed /\ connected
    /\ txs.rsp_prod # txs.req_prod
    /\ LET pos == txs.rsp_prod % NET_TX_RING_SIZE
           new == UAdd(txs.rsp_prod, 1)
       IN /\ tx_ring[pos].t \in {"req", "gso"}
          /\ tx_ring' = [tx_ring EXCEPT ![pos] =
                            IF tx_ring[pos].t = "req" THEN TxRsp(id, XEN_NETIF_RSP_OKAY)
                            ELSE TxRsp(0, XEN_NETIF_RSP_NULL)]
          /\ txs' = [txs EXCEPT !.rsp_prod = new]
          /\ irq_pending' = (irq_pending
                              \/ (IrqBound /\ PushNotify(txs.rsp_prod, new, txs.rsp_event)))
    /\ UNCHANGED << devvars, napi, crashed, tx, tx_slots, tx_skb_freelist, gref_tx_head,
                    gref_rx_head, gnt, gnt_mapped, skb_users, txc, rxvars, tgtvars, rxc,
                    stats, hist >>

\* The grants of the requests the backend works on: the oldest unanswered one
\* of each ring.
PeerRefs ==
    (IF txs.rsp_prod # txs.req_prod /\ tx_ring[txs.rsp_prod % NET_TX_RING_SIZE].t = "req"
     THEN {tx_ring[txs.rsp_prod % NET_TX_RING_SIZE].gref} ELSE {})
    \cup (IF rxs.rsp_prod # rxs.req_prod
          THEN {rx_slots[xennet_rxidx(rxs.rsp_prod)].gref} ELSE {})

\* The backend maps the granted page of a request it works on, and unmaps it
\* again.
PeerMap(r) ==
    /\ ~crashed /\ connected
    /\ r \in PeerRefs
    /\ gnt[r] = "bound" /\ r \notin gnt_mapped
    /\ Cardinality(gnt_mapped) < MaxMapped
    /\ gnt_mapped' = gnt_mapped \cup {r}
    /\ UNCHANGED << devvars, napi, crashed, irq_pending, txvars, gref_rx_head, gnt,
                    skb_users, txc, rxvars, tgtvars, rxc, stats, hist >>

PeerUnmap(r) ==
    /\ ~crashed
    /\ r \in gnt_mapped
    /\ gnt_mapped' = gnt_mapped \ {r}
    /\ UNCHANGED << devvars, napi, crashed, irq_pending, txvars, gref_rx_head, gnt,
                    skb_users, txc, rxvars, tgtvars, rxc, stats, hist >>

\* ------------------------------------------------------------------- receive
\* The responses the backend writes.  A packet response is (id, offset, flags,
\* status), status being the size or a negative error; an extra-info record has
\* its type (and the more flag, 256) where id is, the segmentation size where
\* offset is and the segmentation type where flags are.
RxResponses ==
    [ok       |-> RxSlot(0, 0, 0, 1),
     csum     |-> RxSlot(0, 0, XEN_NETRXF_csum_blank, 1),
     more     |-> RxSlot(0, 0, XEN_NETRXF_more_data, 1),
     extra    |-> RxSlot(0, 0, XEN_NETRXF_extra_info, 1),
     bad      |-> RxSlot(0, PAGE_SIZE, 0, 1),
     bad_more |-> RxSlot(0, PAGE_SIZE, XEN_NETRXF_more_data, 1),
     neg      |-> RxSlot(0, 0, 0, -1),
     gso      |-> RxSlot(XEN_NETIF_EXTRA_TYPE_GSO, 1, XEN_NETIF_GSO_TYPE_TCPV4, 0),
     gso_zero |-> RxSlot(XEN_NETIF_EXTRA_TYPE_GSO, 0, XEN_NETIF_GSO_TYPE_TCPV4, 0),
     unk_more |-> RxSlot(XEN_NETIF_EXTRA_FLAG_MORE * 256, 0, 0, 0),
     big_more |-> RxSlot(0, 0, XEN_NETRXF_more_data, RX_COPY_THRESHOLD + 1)]

\* The backend publishes one more RX response; it may publish up to MaxOverrun
\* responses for which no request was posted.
PeerRxRespond(kind, overrun, limit) ==
    /\ ~crashed /\ connected
    /\ rxs.rsp_prod < rxs.req_prod + overrun
    /\ rxs.rsp_prod < limit
    /\ LET new == UAdd(rxs.rsp_prod, 1)
       IN /\ rx_ring' = [rx_ring EXCEPT ![xennet_rxidx(rxs.rsp_prod)] = RxResponses[kind]]
          /\ rxs' = [rxs EXCEPT !.rsp_prod = new]
          /\ irq_pending' = (irq_pending
                              \/ (IrqBound /\ PushNotify(rxs.rsp_prod, new, rxs.rsp_event)))
    /\ UNCHANGED << devvars, napi, crashed, txvars, gref_rx_head, gnt, gnt_mapped,
                    skb_users, txc, rx, rx_slots, rx_batch, timer_armed, tgtvars, rxc,
                    stats, hist >>

\* rx_refill_timeout
TimerFire ==
    /\ ~crashed /\ timer_armed
    /\ timer_armed' = FALSE
    /\ napi' = napi_schedule(napi)
    /\ UNCHANGED << devvars, crashed, irq_pending, txvars, gref_rx_head, gnt, gnt_mapped,
                    skb_users, txc, rx, rxs, rx_ring, rx_slots, rx_batch, tgtvars, rxc,
                    stats, hist >>

NPartial(q) == Cardinality({ k \in 1 .. Len(q) : q[k].partial })

\* xennet_poll from taking rx_lock to handle_incoming_queue: the responses below
\* the rsp_prod read at the start are parsed, the rejected buffers are freed and
\* the packets are handed up, ndrop of them failing checksum_setup.
PollParse(ndrop) ==
    /\ ~crashed /\ napi = "sched" /\ RxLockFree /\ carrier
    /\ \E l \in {PollLoop(RxState, rxs.rsp_prod, 0, NAPI_WEIGHT, gnt_mapped)} :
       \E R \in {l.R} :
          /\ ndrop <= (IF R.bug THEN 0 ELSE NPartial(R.rxq))
          /\ IF R.bug
             THEN /\ crashed' = TRUE
                  /\ hist' = [hist EXCEPT !.rx_seen = R.seen]
                  /\ UNCHANGED << rxvars, rx_target, gref_rx_head, gnt, skb_users, rxc,
                                  stats >>
             ELSE /\ SetRx(R)
                  /\ gnt' = R.g
                  /\ skb_users' = Deliver(FreeAll(R.users, R.errq), R.rxq)
                  /\ stats' = [stats EXCEPT !.rx_errors = R.rx_errors + ndrop]
                  /\ hist' = [hist EXCEPT !.rx_seen = R.seen]
                  /\ rxc' = [RxIdle EXCEPT !.owner = "poll", !.pc = "shrink",
                                           !.work_done = l.work_done - ndrop,
                                           !.full = (l.work_done >= NAPI_WEIGHT),
                                           !.queued = Len(R.rxq),
                                           !.left = (R.cons # rxs.rsp_prod)]
                  /\ UNCHANGED << crashed, rxs >>
    /\ UNCHANGED << devvars, napi, irq_pending, txvars, gnt_mapped, txc, rx_min_target,
                    rx_max_target >>

\* xennet_poll from taking rx_lock to the return of xennet_get_responses for
\* the first packet, when that packet has no extra info and is accepted: rp and
\* the local copy of the first response are kept, the buffers of the chain are
\* on the temporary queue, their grants are released.
ParseValidate ==
    /\ ~crashed /\ napi = "sched" /\ RxLockFree /\ carrier
    /\ PollMore(rx.rsp_cons, rxs.rsp_prod, 0, NAPI_WEIGHT)
    /\ ~Bit(rx_ring[xennet_rxidx(rx.rsp_cons)].flags, XEN_NETRXF_extra_info)
    /\ \E R \in {PollHead(RxState, rxs.rsp_prod, gnt_mapped)} :
          /\ ~R.bug /\ ~R.err
          /\ SetRx(R)
          /\ gnt' = R.g
          /\ hist' = [hist EXCEPT !.rx_seen = R.seen]
          /\ rxc' = [RxIdle EXCEPT !.owner = "poll", !.pc = "frags",
                                   !.rp = rxs.rsp_prod,
                                   !.head = rx_ring[xennet_rxidx(rx.rsp_cons)],
                                   !.list = R.list]
    /\ UNCHANGED << devvars, napi, crashed, irq_pending, txvars, gnt_mapped, skb_users,
                    txc, rxs, rx_min_target, rx_max_target, stats >>

\* xennet_fill_frags: the offset and the size of each continuation fragment,
\* read from the response slots behind rsp_cons as they are now.
FragsRead ==
    { [offset |-> rx_ring[xennet_rxidx(UAdd(rx.rsp_cons, j))].offset,
       size |-> rx_ring[xennet_rxidx(UAdd(rx.rsp_cons, j))].status] :
        j \in 1 .. (Len(rxc.list) - 1) }

\* xennet_poll from the first packet's "skb = __skb_dequeue(&tmpq)" on: the
\* first fragment from the local copy, xennet_fill_frags, then the rest of the
\* loop up to handle_incoming_queue.
ParseMerge ==
    /\ ~crashed /\ rxc.owner = "poll" /\ rxc.pc = "frags"
    /\ \E l \in {PollLoop(PollAccept([RxState EXCEPT !.list = rxc.list], rxc.head),
                          rxc.rp, 1, NAPI_WEIGHT, gnt_mapped)} :
       \E R \in {l.R} :
          IF R.bug
          THEN /\ crashed' = TRUE
               /\ hist' = [hist EXCEPT !.rx_seen = R.seen]
               /\ UNCHANGED << rxvars, rx_target, gref_rx_head, gnt, skb_users, rxc,
                               stats >>
          ELSE /\ SetRx(R)
               /\ gnt' = R.g
               /\ skb_users' = Deliver(FreeAll(R.users, R.errq), R.rxq)
               /\ stats' = [stats EXCEPT !.rx_errors = R.rx_errors]
               /\ hist' = [hist EXCEPT !.rx_seen = R.seen,
                                       !.frags = @ \cup FragsRead
                                                   \cup {[offset |-> rxc.head.offset,
                                                          size |-> rxc.head.status]}]
               /\ rxc' = [RxIdle EXCEPT !.owner = "poll", !.pc = "shrink",
                                        !.work_done = l.work_done,
                                        !.full = (l.work_done >= NAPI_WEIGHT),
                                        !.queued = Len(R.rxq),
                                        !.left = (R.cons # rxs.rsp_prod)]
               /\ UNCHANGED << crashed, rxs >>
    /\ UNCHANGED << devvars, napi, irq_pending, txvars, gnt_mapped, txc, rx_min_target,
                    rx_max_target >>

\* The backend writes a response slot it has already published once more, with
\* an offset beyond the page: the ring is memory shared with it.
PeerRxRewrite(j) ==
    /\ ~crashed /\ connected
    /\ j < USub(rxs.rsp_prod, rx.rsp_cons)
    /\ rx_ring' = [rx_ring EXCEPT ![xennet_rxidx(UAdd(rx.rsp_cons, j))] =
                      [@ EXCEPT !.offset = PAGE_SIZE]]
    /\ UNCHANGED << devvars, napi, crashed, irq_pending, txvars, gref_rx_head, gnt,
                    gnt_mapped, skb_users, txc, rx, rxs, rx_slots, rx_batch,
                    timer_armed, tgtvars, rxc, stats, hist >>

\* xennet_poll: the fill target is reduced when few responses came.
PollShrink ==
    /\ ~crashed /\ rxc.pc = "shrink"
    /\ rx_target' = ShrinkTarget(rx_target, rx_min_target, rx.req_prod_pvt, rxs.rsp_prod)
    /\ rxc' = [rxc EXCEPT !.pc = "refill", !.shrunk = (rx_target' # rx_target)]
    /\ UNCHANGED << devvars, napi, crashed, irq_pending, txvars, gref_rx_head, gnt,
                    gnt_mapped, skb_users, txc, rxvars, rx_min_target, rx_max_target,
                    stats, hist >>

\* A call of xennet_alloc_rx_buffers under rx_lock, on the state R0.
Refill(R0, fail_after) ==
    \E R \in {xennet_alloc_rx_buffers(R0, rxs.rsp_prod, rxs.req_event, fail_after)} :
       /\ fail_after \in 0 .. MaxAlloc \cup {NoFail}
       /\ IF R.bug
          THEN /\ crashed' = TRUE
               /\ UNCHANGED << rxvars, rx_target, gref_rx_head, gnt, skb_users >>
          ELSE /\ SetRx(R)
               /\ gnt' = R.g /\ skb_users' = R.users
               /\ rxs' = [rxs EXCEPT !.req_prod = R.sreq]
               /\ UNCHANGED crashed

\* xennet_poll: xennet_alloc_rx_buffers; the pass ends here, still scheduled,
\* if the budget was used up.
PollRefill(fail_after) ==
    /\ ~crashed /\ rxc.pc = "refill"
    /\ Refill(RxState, fail_after)
    /\ rxc' = IF rxc.work_done < NAPI_WEIGHT THEN [rxc EXCEPT !.pc = "final"] ELSE RxIdle
    /\ UNCHANGED << devvars, napi, irq_pending, txvars, gnt_mapped, txc, rx_min_target,
                    rx_max_target, stats, hist >>

\* The refill of xennet_poll statement by statement, as the peer may see it:
\* first everything xennet_alloc_rx_buffers does before it pushes.
RefillWrite(fail_after) ==
    /\ ~crashed /\ rxc.pc = "refill"
    /\ \E R \in {xennet_alloc_rx_buffers(RxState, rxs.rsp_prod, rxs.req_event, fail_after)} :
          IF R.bug
          THEN /\ crashed' = TRUE
               /\ UNCHANGED << rxvars, rx_target, gref_rx_head, gnt, skb_users, rxc >>
          ELSE /\ SetRx(R)
               /\ gnt' = R.g /\ skb_users' = R.users
               /\ rxc' = IF R.sreq # rxs.req_prod THEN [rxc EXCEPT !.pc = "push"]
                         ELSE IF rxc.work_done < NAPI_WEIGHT
                         THEN [rxc EXCEPT !.pc = "final"] ELSE RxIdle
               /\ UNCHANGED << crashed, rxs >>
    /\ UNCHANGED << devvars, napi, irq_pending, txvars, gnt_mapped, txc, rx_min_target,
                    rx_max_target, stats, hist >>

\* Then the push (line 349).
RefillPush ==
    /\ ~crashed /\ rxc.pc = "push"
    /\ rxs' = [rxs EXCEPT !.req_prod = RxPush(RxState, rxs.req_event).sreq]
    /\ rxc' = IF rxc.work_done < NAPI_WEIGHT THEN [rxc EXCEPT !.pc = "final"] ELSE RxIdle
    /\ UNCHANGED << devvars, napi, crashed, irq_pending, txvars, gref_rx_head, gnt,
                    gnt_mapped, skb_users, txc, rx, rx_ring, rx_slots, rx_batch,
                    timer_armed, tgtvars, stats, hist >>

\* xennet_poll, RING_FINAL_CHECK_FOR_RESPONSES: if no response is unconsumed
\* the event marker is set to rsp_cons + 1; otherwise the pass ends, scheduled.
PollFinal ==
    /\ ~crashed /\ rxc.pc = "final"
    /\ IF HasUnconsumed(rxs.rsp_prod, rx.rsp_cons)
       THEN rxc' = RxIdle /\ UNCHANGED rxs
       ELSE /\ rxs' = [rxs EXCEPT !.rsp_event = UAdd(rx.rsp_cons, 1)]
            /\ rxc' = [rxc EXCEPT !.pc = "recheck"]
    /\ UNCHANGED << devvars, napi, crashed, irq_pending, txvars, gref_rx_head, gnt,
                    gnt_mapped, skb_users, txc, rx, rx_ring, rx_slots, rx_batch,
                    timer_armed, tgtvars, stats, hist >>

\* xennet_poll, the second check of RING_FINAL_CHECK_FOR_RESPONSES.
PollRecheck ==
    /\ ~crashed /\ rxc.pc = "recheck"
    /\ rxc' = IF HasUnconsumed(rxs.rsp_prod, rx.rsp_cons) THEN RxIdle
              ELSE [rxc EXCEPT !.pc = "complete"]
    /\ UNCHANGED << devvars, napi, crashed, irq_pending, txvars, gref_rx_head, gnt,
                    gnt_mapped, skb_users, txc, rxvars, tgtvars, stats, hist >>

\* xennet_poll: __napi_complete, then rx_lock is dropped.
PollComplete ==
    /\ ~crashed /\ rxc.pc = "complete"
    /\ napi' = "idle"
    /\ rxc' = RxIdle
    /\ UNCHANGED << devvars, crashed, irq_pending, txvars, gref_rx_head, gnt,
                    gnt_mapped, skb_users, txc, rxvars, tgtvars, stats, hist >>

\* The value a store to rxbuf_min or rxbuf_max ends up with.  The upper limit is
\* RX_MAX_TARGET(np->nr_ring_pages): the smaller of 256 and the slot count of a
\* ring of that many pages, which is RX_MAX_TARGET for every page count.
ClampTarget(v) == Max(RX_MIN_TARGET, Min(v, RX_MAX_TARGET))

\* store_rxbuf_min
StoreRxbufMin(v, fail_after) ==
    /\ ~crashed /\ RxLockFree
    /\ LET target == ClampTarget(v)
           max == IF target > rx_max_target THEN target ELSE rx_max_target
           tgt == IF target > rx_target THEN target ELSE rx_target
       IN /\ rx_max_target' = max
          /\ rx_min_target' = target
          /\ IF carrier
             THEN Refill([RxState EXCEPT !.target = tgt, !.max = max, !.min = target],
                         fail_after)
             ELSE /\ fail_after = NoFail
                  /\ rx_target' = tgt
                  /\ UNCHANGED << rx, rxs, rx_ring, rx_slots, rx_batch, timer_armed,
                                  gref_rx_head, gnt, skb_users, crashed >>
    /\ UNCHANGED << devvars, napi, irq_pending, txvars, gnt_mapped, txc, rxc, stats, hist >>

\* store_rxbuf_max
StoreRxbufMax(v, fail_after) ==
    /\ ~crashed /\ RxLockFree
    /\ LET target == ClampTarget(v)
           min == IF target < rx_min_target THEN target ELSE rx_min_target
           tgt == IF target < rx_target THEN target ELSE rx_target
       IN /\ rx_min_target' = min
          /\ rx_max_target' = target
          /\ IF carrier
             THEN Refill([RxState EXCEPT !.target = tgt, !.max = target, !.min = min],
                         fail_after)
             ELSE /\ fail_after = NoFail
                  /\ rx_target' = tgt
                  /\ UNCHANGED << rx, rxs, rx_ring, rx_slots, rx_batch, timer_armed,
                                  gref_rx_head, gnt, skb_users, crashed >>
    /\ UNCHANGED << devvars, napi, irq_pending, txvars, gnt_mapped, txc, rxc, stats, hist >>

\* ------------------------------------------------------------ specifications
Gc == GcRead \/ GcEvent \/ GcLoop \/ GcExitXmit \/ GcExitIrq

PollRest == PollShrink \/ PollFinal \/ PollRecheck \/ PollComplete

\* The transmit side: submissions, completions, the interrupt, the device going
\* down and up and being reconnected, with a backend that posts no RX response.
TxDropPackets == { p \in Packets : SlotCount(p) > MAX_SKB_FRAGS + 1 }

NextTx ==
    \/ \E f \in BOOLEAN : Connect(f, f, NoFail)
    \/ Disconnect
    \/ Open(NoFail)
    \/ Close
    \/ \E p \in Packets : StartXmit(p)
    \/ \E p \in TxDropPackets : StartXmitDrop(p)
    \/ Gc
    \/ IrqEnter
    \/ PeerTxRespond
    \/ PollParse(0)
    \/ PollRefill(NoFail)
    \/ PollRest

SpecTx == Init /\ [][NextTx]_vars

RxKinds == {"ok", "more", "extra", "bad", "bad_more", "neg", "gso"}

\* The receive side: refills, the poll task and the interrupt, with
\* a backend that answers RX requests in every way of RxResponses and may keep
\* a granted page mapped; nothing is transmitted.
NextRx ==
    \/ Connect(TRUE, TRUE, NoFail)
    \/ Disconnect
    \/ Open(NoFail)
    \/ Close
    \/ Interrupt
    \/ \E k \in RxKinds : PeerRxRespond(k, MaxOverrun, MaxRxRsp)
    \/ \E r \in Refs : PeerMap(r)
    \/ \E r \in Refs : PeerUnmap(r)
    \/ \E n \in 0 .. NAPI_WEIGHT : PollParse(n)
    \/ PollRefill(NoFail)
    \/ PollRest

SpecRx == Init /\ [][NextRx]_vars

\* Grants: both rings in use, with two-descriptor packets, good and bad-offset
\* RX responses, a backend that may keep a page mapped, and teardown.
GrantPackets == { p \in Packets : p.off = 0 /\ p.frags = 1 /\ ~p.gso }

NextGrant ==
    \/ Connect(TRUE, TRUE, NoFail)
    \/ Disconnect
    \/ Open(NoFail)
    \/ \E p \in GrantPackets : StartXmit(p)
    \/ GcRead \/ GcEvent \/ GcLoop \/ GcExitXmit
    \/ Interrupt
    \/ PeerTxRespond
    \/ \E k \in {"ok", "bad"} : PeerRxRespond(k, 0, MaxGrantRsp)
    \/ \E r \in Refs : PeerMap(r)
    \/ \E r \in Refs : PeerUnmap(r)
    \/ PollParse(0)
    \/ PollRefill(NoFail)
    \/ PollRest

SpecGrant == Init /\ [][NextGrant]_vars

\* The values written to the sysfs attributes rxbuf_min and rxbuf_max: below
\* the smallest target, inside the range, above the largest target.
StoreMinValues == {0, RX_MAX_TARGET - 2}
StoreMaxValues == {RX_MAX_TARGET - 2, RX_MAX_TARGET + 1}

\* Flow control: the fill target under refills, poll passes and stores to the
\* sysfs attributes, with a backend that delivers good single-buffer packets.
NextFlow ==
    \/ Connect(TRUE, TRUE, NoFail)
    \/ Open(NoFail)
    \/ Interrupt
    \/ PeerRxRespond("ok", 0, MaxFlowRsp)
    \/ PollParse(0)
    \/ PollRefill(NoFail)
    \/ PollRest
    \/ \E v \in StoreMinValues : StoreRxbufMin(v, NoFail)
    \/ \E v \in StoreMaxValues : StoreRxbufMax(v, NoFail)

SpecFlow == Init /\ [][NextFlow]_vars

\* Teardown: xennet_disconnect_backend step by step, while the stack submits
\* packets, the interrupt and the poll task run, the refill timer is pending
\* and the backend answers requests and may keep a page mapped.
DownPackets == { p \in Packets : p.off = 0 /\ p.frags = 0 /\ ~p.gso }

NextDown ==
    \/ \E f \in {0, NoFail} : Connect(TRUE, TRUE, f)
    \/ DiscCarrierOff
    \/ DiscUnbind
    \/ DiscRings
    \/ DiscSlots
    \/ DiscPools
    \/ Open(NoFail)
    \/ \E p \in DownPackets : StartXmit(p)
    \/ \E p \in DownPackets : StartXmitDrop(p)
    \/ Gc
    \/ IrqEnter
    \/ PeerTxRespond
    \/ PeerRxRespond("ok", 0, MaxDownRsp)
    \/ \E r \in Refs : PeerMap(r)
    \/ \E r \in Refs : PeerUnmap(r)
    \/ TimerFire
    \/ PollParse(0)
    \/ PollRefill(NoFail)
    \/ PollRest

SpecDown == Init /\ [][NextDown]_vars

\* Transmission alone: packets of every shape offered to a device whose
\* features were negotiated either way, a backend that completes the requests,
\* the interrupt, and a disconnect.  The interrupt is delivered and the code
\* between taking and dropping tx_lock runs to its end.
NextXmit ==
    \/ \E sg, tso \in BOOLEAN : Connect(sg, tso, NoFail)
    \/ Disconnect
    \/ Open(NoFail)
    \/ \E p \in Packets : StartXmit(p)
    \/ \E p \in Packets : StartXmitDrop(p)
    \/ Gc
    \/ IrqEnter
    \/ PeerTxRespond

SpecXmit == Init /\ [][NextXmit]_vars /\ WF_vars(Gc) /\ WF_vars(IrqEnter)

\* Refill: every caller of xennet_alloc_rx_buffers, with an allocator that may
\* fail at once or after MaxAlloc buffers, the refill timer, and a backend that
\* delivers single-buffer packets, good or with a bad offset.
AllocFails == 0 .. MaxAlloc \cup {NoFail}

NextRefill ==
    \/ \E f \in AllocFails : Connect(TRUE, TRUE, f)
    \/ \E f \in AllocFails : Open(f)
    \/ Interrupt
    \/ \E k \in {"ok", "bad"} : PeerRxRespond(k, 0, MaxRefillRsp)
    \/ TimerFire
    \/ PollParse(0)
    \/ \E f \in AllocFails : PollRefill(f)
    \/ PollRest
    \/ \E v \in StoreMinValues : StoreRxbufMin(v, NoFail)

SpecRefill == Init /\ [][NextRefill]_vars

\* Parsing: the poll task and the refill on a ring where the backend writes
\* chains of fragments with small and large heads, extra-info records of known
\* and unknown type, with and without the more flag, and bad offsets.
ParseKinds == {"ok", "more", "big_more", "extra", "gso", "unk_more", "bad"}

NextParse ==
    \/ Connect(TRUE, TRUE, NoFail)
    \/ Open(NoFail)
    \/ Interrupt
    \/ \E k \in ParseKinds : PeerRxRespond(k, 0, MaxParseRsp)
    \/ PollParse(0)
    \/ PollRefill(NoFail)
    \/ PollRest

SpecParse == Init /\ [][NextParse]_vars

\* Publication: submissions and the refill of the poll pass taken statement by
\* statement, with a backend that answers on both rings whatever is published.
PubPackets == { p \in Packets : (p.off = 0 <=> p.frags = 1) /\ (p.gso <=> p.frags = 0) }

NextPub ==
    \/ Connect(TRUE, TRUE, NoFail)
    \/ Open(NoFail)
    \/ \E p \in PubPackets : XmitHead(p)
    \/ XmitFrags
    \/ XmitPush
    \/ Gc
    \/ IrqEnter
    \/ PeerTxRespond
    \/ \E k \in {"ok", "extra", "gso"} : PeerRxRespond(k, 0, MaxGrantRsp)
    \/ PollParse(0)
    \/ RefillWrite(NoFail)
    \/ RefillPush
    \/ PollRest

SpecPub == Init /\ [][NextPub]_vars

\* Transmission against a backend that chooses the ids of its responses.
NextIds ==
    \/ Connect(TRUE, TRUE, NoFail)
    \/ Disconnect
    \/ Open(NoFail)
    \/ \E p \in Packets : StartXmit(p)
    \/ Gc
    \/ IrqEnter
    \/ \E id \in PeerIds : PeerTxRespondId(id)

SpecIds == Init /\ [][NextIds]_vars

\* The receive parser split between validation and merge, against a backend
\* that chains responses and rewrites slots it has published.
NextFrag ==
    \/ Connect(TRUE, TRUE, NoFail)
    \/ Open(NoFail)
    \/ Interrupt
    \/ \E k \in {"ok", "more"} : PeerRxRespond(k, 0, MaxParseRsp)
    \/ \E j \in 0 .. (MaxParseRsp - 1) : PeerRxRewrite(j)
    \/ ParseValidate
    \/ ParseMerge
    \/ PollParse(0)
    \/ PollRefill(NoFail)
    \/ PollRest

SpecFrag == Init /\ [][NextFrag]_vars

\* Both rings against a backend that publishes more responses than there are
\* requests.
NextOver ==
    \/ Connect(TRUE, TRUE, NoFail)
    \/ Open(NoFail)
    \/ Interrupt
    \/ PeerTxOverrun
    \/ \E k \in {"ok", "more"} :
          PeerRxRespond(k, MaxOverrun, RX_DFL_MIN_TARGET + MaxOverrun)
    \/ PollParse(0)
    \/ PollRefill(NoFail)
    \/ PollRest

SpecOver == Init /\ [][NextOver]_vars

\* Locking: every context that takes tx_lock or rx_lock, side by side: the
\* stack submitting, the interrupt, the poll task, open, connect and writes to
\* the sysfs attribute rxbuf_min, with a backend that answers on both rings.
LockPackets == { p \in Packets : p.off = 0 /\ ~p.gso }

NextLock ==
    \/ Connect(TRUE, TRUE, NoFail)
    \/ Open(NoFail)
    \/ \E p \in LockPackets : StartXmit(p)
    \/ Gc
    \/ IrqEnter
    \/ PeerTxRespond
    \/ PeerRxRespond("ok", 0, MaxDownRsp)
    \/ PollParse(0)
    \/ PollRefill(NoFail)
    \/ PollRest
    \/ \E v \in StoreMinValues : StoreRxbufMin(v, NoFail)

SpecLock == Init /\ [][NextLock]_vars

\* ------------------------------------------------------------------ properties
TxOutstanding == USub(tx.req_prod_pvt, tx.rsp_cons)

\* C1: the number of TX requests outstanding (tx.req_prod_pvt - tx.rsp_cons)
\* never exceeds the capacity of the TX ring.
C1_TxOutstandingWithinRing == TxOutstanding <= NET_TX_RING_SIZE

\* The ids on the freelist, following the links from its head.
RECURSIVE FreeIds(_, _, _)
FreeIds(slots, head, n) ==
    IF n = 0 \/ head \notin TxIds THEN {}
    ELSE {head} \cup FreeIds(slots, slots[head].link, n - 1)

OwnedIds == { id \in TxIds : ~tx_slots[id].is_link }

\* The ids of the responses xennet_tx_buf_gc collects when it reads rsp_prod now.
CollectedIds ==
    { tx_ring[UAdd(tx.rsp_cons, k) % NET_TX_RING_SIZE].id :
        k \in { j \in 0 .. (NET_TX_RING_SIZE - 1) :
                  /\ j < USub(txs.rsp_prod, tx.rsp_cons)
                  /\ tx_ring[UAdd(tx.rsp_cons, j) % NET_TX_RING_SIZE].t = "rsp"
                  /\ tx_ring[UAdd(tx.rsp_cons, j) % NET_TX_RING_SIZE].status
                         # XEN_NETIF_RSP_NULL } }

\* C2: an id popped by a submission goes back to the freelist only when
\* xennet_tx_buf_gc processes a response carrying it below the rsp_prod it
\* read; until then it is not on the freelist and no other descriptor gets it.
C2_IdFreedOnlyByCompletion ==
    [][ /\ \A id \in TxIds :
             (~tx_slots[id].is_link /\ tx_slots'[id].is_link /\ connected') =>
                 (txc.pc = "gc_read" /\ id \in CollectedIds)
        /\ ~hist'.id_dup
        /\ (connected' /\ ~crashed') =>
               \A id \in TxIds : ~(tx_slots'[id].is_link /\ id \in hist'.tx_inflight)
      ]_vars

C2_Witness ==
    /\ connected /\ txc.pc = "gc_event" /\ tx.rsp_cons >= 2
    /\ hist.tx_inflight # {} /\ OwnedIds = hist.tx_inflight

\* The request slots a submission wrote: positions first .. first + n - 1.
XmitSlot(j) == tx_ring[(txc.first + j) % NET_TX_RING_SIZE]
XmitCount == SlotCount(txc.pkt) + (IF txc.pkt.gso THEN 1 ELSE 0)
JustSubmitted == txc.owner = "xmit" /\ txc.pc = "gc_read" /\ tx.rsp_cons = txs.rsp_prod

\* C8 as stated: a packet of k pieces advances the private producer by k (k + 1
\* with a GSO record) and every descriptor written carries the more-data flag
\* except the last one.
C8_EveryDescriptorButLastHasMore ==
    JustSubmitted =>
        /\ tx.req_prod_pvt = txc.first + XmitCount
        /\ \A j \in 0 .. (XmitCount - 1) : XmitSlot(j).more = (j < XmitCount - 1)

\* The positions of the data descriptors of the submission, in ring order.
DataSlots == { j \in 0 .. (XmitCount - 1) : ~(txc.pkt.gso /\ j = 1) }

\* C8, amended: a packet of k >= 1 pieces advances the private producer by k
\* (k + 1 with a GSO record); its k data descriptors carry the more-data flag
\* except the last of them; the GSO record, written right after the first
\* descriptor, carries no more-data flag and is announced by the extra-info
\* flag of the first descriptor.
C8_DataDescriptorsButLastHaveMore ==
    JustSubmitted =>
        /\ tx.req_prod_pvt = txc.first + XmitCount
        /\ Cardinality(DataSlots) = SlotCount(txc.pkt)
        /\ \A j \in DataSlots :
               /\ XmitSlot(j).t = "req"
               /\ XmitSlot(j).more = (\E i \in DataSlots : i > j)
        /\ XmitSlot(0).extra = txc.pkt.gso
        /\ txc.pkt.gso => (XmitSlot(1).t = "gso" /\ ~XmitSlot(1).more)

C8_Witness ==
    /\ JustSubmitted /\ txc.pkt.gso /\ SlotCount(txc.pkt) = 2 /\ txc.first > 0

GcReturns == txc.pc = "gc_check" /\ ~GcAgain(txc.prod, txs.rsp_prod)

\* C10: when xennet_tx_buf_gc returns, tx.rsp_cons equals the shared rsp_prod
\* as read again after rsp_event was set to rsp_cons + (req_prod - rsp_cons)/2
\* + 1; with n >= 1 requests outstanding the marker lies in (rsp_cons,
\* rsp_cons + n]; and whenever completions wait uncollected with nobody holding
\* tx_lock, a notification is pending or a completion still to come crosses
\* the marker.
C10_GcLeavesNoSilentCompletion ==
    /\ GcReturns =>
          /\ tx.rsp_cons = txs.rsp_prod
          /\ txs.rsp_event = TxEvent(tx.rsp_cons, txs.req_prod)
          /\ USub(txs.req_prod, tx.rsp_cons) >= 1 =>
                 /\ USub(txs.rsp_event, tx.rsp_cons) >= 1
                 /\ USub(txs.rsp_event, tx.rsp_cons) <= USub(txs.req_prod, tx.rsp_cons)
    /\ (connected /\ ~crashed /\ txc.owner = "none" /\ txs.rsp_prod # tx.rsp_cons) =>
          \/ irq_pending
          \/ /\ USub(txs.rsp_event, txs.rsp_prod) >= 1
             /\ USub(txs.rsp_event, txs.rsp_prod) <= USub(txs.req_prod, txs.rsp_prod)

C10_Witness ==
    /\ GcReturns /\ txc.owner = "irq" /\ tx.rsp_cons >= 1
    /\ USub(txs.req_prod, tx.rsp_cons) >= 2
    /\ USub(txs.rsp_event, tx.rsp_cons) = 2

\* C6: rx_min_target <= rx_target <= rx_max_target in every reachable state.
C6_TargetWithinBounds == rx_min_target <= rx_target /\ rx_target <= rx_max_target

C6_Witness ==
    /\ connected /\ rx_target = rx_max_target /\ rx_min_target = rx_target
    /\ rx_target = RX_MAX_TARGET - 2 /\ rx.rsp_cons > 0

\* C7: a poll pass that decrements rx_target does so by exactly one and does
\* not double it in the refill at its end; every increase made by the refill
\* of a pass is a doubling capped at rx_max_target.
C7_TargetMovesOneWayPerPass ==
    [][ /\ rxc.pc = "shrink" => rx_target' \in {rx_target, rx_target - 1}
        /\ (rxc.pc = "refill" /\ rxc.shrunk) => rx_target' <= rx_target
        /\ (rxc.pc = "refill" /\ rx_target' # rx_target) =>
               rx_target' = Min(2 * rx_target, rx_max_target)
      ]_vars

\* The grant references held by descriptors in flight, per slot table.
TxHeld(i) == IF tx_slots[i].is_link THEN GRANT_INVALID_REF ELSE tx_slots[i].gref
RxHeld(i) == rx_slots[i].gref
HeldRefs == ({ TxHeld(i) : i \in TxIds } \cup { RxHeld(i) : i \in RxIds })
                \ {GRANT_INVALID_REF}
Claimable == SeqToSet(gref_tx_head) \cup SeqToSet(gref_rx_head)

\* C3: no grant reference is held by two descriptors in flight at once, and a
\* reference a descriptor holds is not in a pool, where the next claim would
\* return it, before its access was ended and it was released.
C3_GrantHeldOnce ==
    /\ \A i, j \in TxIds : (i # j /\ TxHeld(i) # GRANT_INVALID_REF) => TxHeld(i) # TxHeld(j)
    /\ \A i, j \in RxIds : (i # j /\ RxHeld(i) # GRANT_INVALID_REF) => RxHeld(i) # RxHeld(j)
    /\ \A i \in TxIds, j \in RxIds :
           TxHeld(i) # GRANT_INVALID_REF => TxHeld(i) # RxHeld(j)
    /\ HeldRefs \cap Claimable = {}
    /\ \A r \in HeldRefs : gnt[r] = "bound"

C3_Witness ==
    /\ connected /\ Cardinality({ i \in TxIds : TxHeld(i) # GRANT_INVALID_REF }) >= 2
    /\ Cardinality({ i \in RxIds : RxHeld(i) # GRANT_INVALID_REF }) >= 2
    /\ tx.rsp_cons > 0 /\ rx.rsp_cons > 0

NoDuplicates(q) == \A a, b \in 1 .. Len(q) : a # b => q[a] # q[b]

SkbRefs(k) ==
    Cardinality({ i \in TxIds : ~tx_slots[i].is_link /\ tx_slots[i].skb = k })
    + Cardinality({ i \in RxIds : rx_slots[i].skb = k })
    + Cardinality({ i \in 1 .. Len(rx_batch) : rx_batch[i] = k })

\* No buffer and no grant is orphaned: a buffer is referenced exactly as often
\* as the driver holds it, a bound grant belongs to a descriptor in flight.
NoOrphan ==
    /\ \A k \in Skbs : skb_users[k] = SkbRefs(k)
    /\ \A r \in Refs : gnt[r] = "bound" => r \in HeldRefs

\* C5: a response with a negative status, with offset + status beyond the page
\* or at a position without a valid grant makes xennet_poll reject the packet;
\* every buffer and grant of the chain is then re-posted or released and freed
\* and the poll loop goes on to the responses that follow (up to its budget).
C5_RejectedPacketDoesNotStopPoll ==
    [][ /\ "bug_after_reject" \notin hist'.rx_seen
        /\ (rxc.owner = "none" /\ rxc'.owner = "poll") =>
              /\ (rx'.rsp_cons = rxs.rsp_prod \/ rxc'.full)
              /\ NoOrphan'
      ]_vars

\* The part of C5 that does not depend on the peer having unmapped the pages
\* of the chain.
C5_RejectedPacketReclaimed ==
    [][ (rxc.owner = "none" /\ rxc'.owner = "poll") =>
              /\ (rx'.rsp_cons = rxs.rsp_prod \/ rxc'.full)
              /\ NoOrphan'
      ]_vars

\* C9: xennet_poll completes the poll task only after it set the RX rsp_event
\* to rsp_cons + 1 and then found no unconsumed response, and no response
\* stays unconsumed while the poll task is idle: with the device up, the poll
\* task idle and nobody in the poll or interrupt handler, an unconsumed
\* response has its notification pending.
C9_NoResponseWaitsWhileIdle ==
    /\ rxc.pc = "complete" => rxs.rsp_event = UAdd(rx.rsp_cons, 1)
    /\ (carrier /\ ~crashed /\ napi = "idle" /\ rxc.owner = "none" /\ txc.owner = "none"
          /\ HasUnconsumed(rxs.rsp_prod, rx.rsp_cons)) => irq_pending

\* The step in which xennet_poll takes rx_lock and parses, and the step in which
\* it drops rx_lock and returns.
PassBegins == rxc.owner = "none" /\ rxc'.owner = "poll"

\* The ring positions rx.rsp_cons .. rsp_prod - 1 of the responses not consumed.
Unconsumed(cons, prod) ==
    { xennet_rxidx(UAdd(cons, k)) :
        k \in { j \in 0 .. (NET_RX_RING_SIZE - 1) : j < USub(prod, cons) } }

\* C11: one invocation of xennet_poll with budget B queues at most B packets
\* for delivery (of single-response packets: as many as are available, up to
\* B); when it stops at the budget with responses unconsumed, these stay in
\* the ring as they are, the poll task stays scheduled when the pass returns,
\* and is never completed by that pass, so that the next pass runs without a
\* notification from the peer.
C11_BudgetBoundsPass ==
    [][ /\ PassBegins =>
              /\ rxc'.queued <= NAPI_WEIGHT
              /\ rxc'.queued = Min(NAPI_WEIGHT, USub(rxs.rsp_prod, rx.rsp_cons))
              /\ rx'.rsp_cons = UAdd(rx.rsp_cons, rxc'.queued)
              /\ rxc'.left <=> HasUnconsumed(rxs.rsp_prod, rx'.rsp_cons)
              /\ rxc'.left => rxc'.queued = NAPI_WEIGHT
              /\ \A i \in Unconsumed(rx'.rsp_cons, rxs.rsp_prod) : rx_ring'[i] = rx_ring[i]
        /\ (rxc.owner = "poll" /\ rxc.left) =>
              /\ rx'.rsp_cons = rx.rsp_cons
              /\ napi' = "sched"
              /\ rxc'.pc # "complete"
              /\ \A i \in Unconsumed(rx.rsp_cons, rxs.rsp_prod) : rx_ring'[i] = rx_ring[i]
      ]_vars

\* The second of two passes: the first took B of B + 1 packets, this one the
\* last; rsp_event is still the one set by xennet_open, so the peer notified
\* once, for the first response.
C11_Witness ==
    /\ rxc.owner = "poll" /\ rxc.pc = "shrink" /\ rxc.queued = 1 /\ ~rxc.left
    /\ rx.rsp_cons = NAPI_WEIGHT + 1 /\ rxs.rsp_prod = NAPI_WEIGHT + 1
    /\ rxs.rsp_event = 1 /\ ~irq_pending

\* The responses xennet_poll finds when it takes rx_lock now: the k-th after
\* rx.rsp_cons, and their number.
PendingAt(k) == rx_ring[xennet_rxidx(UAdd(rx.rsp_cons, k))]
NPending == USub(rxs.rsp_prod, rx.rsp_cons)

\* The pending responses are j good single-response packets, each with its
\* buffer and grant in place, and then a chain in which every response up to
\* the last one published has more-data set.
TruncatedAfter(j) ==
    /\ j < NPending /\ NPending <= NET_RX_RING_SIZE
    /\ \A i \in 0 .. (NPending - 1) :
          IF i < j
          THEN /\ PendingAt(i) = RxResponses.ok
               /\ rx_slots[xennet_rxidx(UAdd(rx.rsp_cons, i))].gref # GRANT_INVALID_REF
          ELSE PendingAt(i) = RxResponses.more

\* C12: when a response has more-data set and the next ring position is the
\* rsp_prod the poll pass read, xennet_get_responses returns the
\* need-more-fragments error for that packet: the packet is not queued for
\* delivery, rx_errors goes up by one, its buffers are freed, and rx.rsp_cons
\* is just past the responses consumed, where the next pass starts parsing.
C12_TruncatedChainRejected ==
    [][ \A j \in 0 .. (NAPI_WEIGHT - 1) :
          (PassBegins /\ TruncatedAfter(j)) =>
              /\ "need_more" \in hist'.rx_seen
              /\ rxc'.queued = j
              /\ stats'.rx_errors = stats.rx_errors + 1
              /\ rx'.rsp_cons = rxs.rsp_prod
              /\ ~rxc'.left
              /\ NoOrphan'
      ]_vars

\* A pass delivers the response that follows a truncated chain as a packet of
\* its own: the chain's only response, at position 0, was rejected by an
\* earlier pass.
C12_Witness ==
    /\ rxc.owner = "poll" /\ rxc.queued = 1 /\ ~rxc.left
    /\ "need_more" \in hist.rx_seen /\ stats.rx_errors = 1
    /\ rx.rsp_cons = 2 /\ rxs.rsp_prod = 2
    /\ rx_ring[0].flags = XEN_NETRXF_more_data /\ rx_ring[1] = RxResponses.ok

\* A collection of TX responses, or a poll pass, started now would come to a
\* grant the peer still maps, and to nothing else that stops it.
TxGcMeetsMapped ==
    /\ ~GcScan(TxState, tx.rsp_cons, txs.rsp_prod, {}).bug
    /\ GcScan(TxState, tx.rsp_cons, txs.rsp_prod, gnt_mapped).bug
RxPollMeetsMapped ==
    /\ ~PollLoop(RxState, rxs.rsp_prod, 0, NAPI_WEIGHT, {}).R.bug
    /\ PollLoop(RxState, rxs.rsp_prod, 0, NAPI_WEIGHT, gnt_mapped).R.bug

\* The step in which xennet_tx_buf_gc scans the responses (called from
\* xennet_start_xmit or from xennet_interrupt), and the one in which xennet_poll
\* parses them.
GcStep ==
    \/ txc.pc = "gc_read" /\ (txc'.pc = "gc_event" \/ (crashed' /\ ~crashed))
    \/ irq_pending /\ ~irq_pending' /\ carrier /\ txc.owner = "none"
PollStep ==
    /\ napi = "sched" /\ rxc.owner = "none" /\ carrier
    /\ (rxc'.owner = "poll" \/ (crashed' /\ ~crashed))

\* A grant the peer maps goes from bound to leaked.
LeakedNow == \E r \in gnt_mapped : gnt[r] = "bound" /\ gnt'[r] = "leaked"

\* C13: when ending access on a grant finds that the peer still maps it, in
\* the collection of TX completions or in the handling of RX responses, the
\* grant becomes leaked instead of released and the engine keeps running.
C13_StillMappedGrantIsLeaked ==
    [][ /\ (GcStep /\ TxGcMeetsMapped) => (~crashed' /\ LeakedNow)
        /\ (PollStep /\ RxPollMeetsMapped) => (~crashed' /\ LeakedNow)
      ]_vars

\* The steps of xennet_disconnect_backend.
UnbindStep == teardown = "unbind" /\ teardown' = "rings"
RingFreeStep == teardown = "rings" /\ teardown' = "slots"
GrantsStep == teardown = "slots" /\ teardown' = "pools"
PoolsStep == teardown = "pools" /\ teardown' = "none"

C16_NoRingAccessAfterLinkDown ==
    [][ /\ ~carrier' => (txc'.owner = "none" /\ rxc'.owner = "none")
        /\ (~carrier /\ ~carrier' /\ teardown' = teardown) =>
               /\ UNCHANGED << tx, tx_slots, tx_skb_freelist, rx, rx_slots, gref_tx_head,
                               gref_rx_head, rx_batch >>
               /\ txs'.req_prod = txs.req_prod /\ txs'.rsp_event = txs.rsp_event
               /\ rxs'.req_prod = rxs.req_prod /\ rxs'.rsp_event = rxs.rsp_event
               /\ (txs'.rsp_prod = txs.rsp_prod) => tx_ring' = tx_ring
               /\ (rxs'.rsp_prod = rxs.rsp_prod) => rx_ring' = rx_ring
               /\ crashed' = crashed
      ]_vars

\* The link is down and the teardown has not gone further; an interrupt is
\* pending, the poll task is scheduled, the interface is open, and responses
\* wait in both rings.
C16_Witness ==
    /\ teardown = "unbind" /\ ~carrier /\ ~crashed
    /\ irq_pending /\ napi = "sched" /\ running
    /\ HasUnconsumed(rxs.rsp_prod, rx.rsp_cons) /\ txs.rsp_prod # tx.rsp_cons

\* A step of xennet_start_xmit that ends at the label drop, and one that
\* pushes the requests of a packet.
DropStep == stats'.tx_dropped # stats.tx_dropped
SubmitStep == txc.owner = "none" /\ txc'.owner = "xmit"

\* C14: a packet dropped by xennet_start_xmit leaves the TX ring, req_prod_pvt,
\* the shared req_prod, the id freelist, the slot table, the TX grant pool and
\* the grants unchanged, notifies nobody, keeps no reference to the packet,
\* counts one tx_dropped and returns NETDEV_TX_OK.
C14_DropLeavesTxUntouched ==
    [][ DropStep =>
           /\ stats'.tx_dropped = stats.tx_dropped + 1
           /\ UNCHANGED << tx_ring, tx, txs, tx_skb_freelist, tx_slots, gref_tx_head, gnt,
                           skb_users, qstopped, txc >>
           /\ ~txc'.notify /\ hist'.tx_inflight = hist.tx_inflight
           /\ hist'.xmit_ret = "NETDEV_TX_OK"
      ]_vars

\* A packet of too many slots was dropped while the link was up, scatter-gather
\* was enabled and requests were outstanding in the ring.
C14_Witness ==
    /\ stats.tx_dropped = 1 /\ hist.xmit_ret = "NETDEV_TX_OK"
    /\ SlotCount(hist.last_drop) > MAX_SKB_FRAGS + 1
    /\ carrier /\ features.sg /\ txc.owner = "none"
    /\ tx.req_prod_pvt = 2 /\ tx.rsp_cons = 0 /\ txs.req_prod = 2

\* The reasons the transmit routine has to drop a packet.
DropReason(p) ==
    \/ SlotCount(p) > MAX_SKB_FRAGS + 1
    \/ ~carrier
    \/ (SlotCount(p) > 1 /\ ~features.sg)
    \/ (p.gso /\ ~features.tso)

\* C19: xennet_start_xmit drops a packet exactly when it has more than
\* MAX_SKB_FRAGS + 1 slots, or the link is down, or it has more than one slot
\* without scatter-gather, or it needs a segmentation offload that was not
\* negotiated; any other packet is written to the ring, one request per slot
\* and one extra for the segmentation.
C19_DropIffReason ==
    [][ /\ DropStep => (DropReason(hist'.last_drop) /\ tx'.req_prod_pvt = tx.req_prod_pvt)
        /\ SubmitStep =>
               /\ ~DropReason(txc'.pkt)
               /\ stats'.tx_dropped = stats.tx_dropped
               /\ tx'.req_prod_pvt =
                      UAdd(tx.req_prod_pvt,
                           SlotCount(txc'.pkt) + (IF txc'.pkt.gso THEN 1 ELSE 0))
               /\ txs'.req_prod = tx'.req_prod_pvt
      ]_vars

\* A segmented packet was written with the offload negotiated, after a
\* three-slot packet had been dropped.
C19_Witness ==
    /\ txc.owner = "xmit" /\ txc.pc = "gc_read" /\ txc.pkt.gso /\ features.tso
    /\ SlotCount(txc.pkt) = 1 /\ tx.req_prod_pvt = 2
    /\ stats.tx_dropped = 1 /\ hist.last_drop.frags = 1 /\ SlotCount(hist.last_drop) = 3

\* The ends of the two callers of xennet_tx_buf_gc.
XmitReturns == txc.owner = "xmit" /\ txc'.owner = "none"
IrqGcReturns == txc.owner = "irq" /\ txc.pc = "gc_check" /\ txc'.owner = "none"
AllCompleted == txs.rsp_prod = tx.req_prod_pvt

GcReadStep == txc.pc = "gc_read" /\ txc'.pc = "gc_event"
CollectedOf(skb) == { id \in CollectedIds : tx_slots[id].skb = skb }
CollectedRefs == { tx_slots[id].gref : id \in CollectedIds } \ {GRANT_INVALID_REF}

\* C20: xennet_tx_buf_gc, for each response of non-null status below the
\* rsp_prod it read, ends access on the slot's grant and releases it to the TX
\* pool, clears the slot, returns the id to the freelist and drops one
\* reference on the buffer; a response of null status changes none of these;
\* afterwards tx.rsp_cons is the rsp_prod that was read.
C20_GcCollectsEachResponse ==
    [][ GcReadStep =>
           /\ tx'.rsp_cons = txs.rsp_prod /\ txc'.prod = txs.rsp_prod
           /\ tx'.req_prod_pvt = tx.req_prod_pvt /\ tx_ring' = tx_ring
           /\ \A id \in TxIds :
                 IF id \in CollectedIds
                 THEN /\ ~tx_slots[id].is_link /\ tx_slots'[id].is_link
                      /\ tx_slots'[id].gref = GRANT_INVALID_REF
                      /\ id \in FreeIds(tx_slots', tx_skb_freelist', NET_TX_RING_SIZE)
                 ELSE tx_slots'[id] = tx_slots[id]
           /\ \A r \in Refs :
                 IF r \in CollectedRefs
                 THEN gnt[r] = "bound" /\ gnt'[r] = "pool" /\ r \in SeqToSet(gref_tx_head')
                 ELSE gnt'[r] = gnt[r] /\ (r \in SeqToSet(gref_tx_head')
                                              <=> r \in SeqToSet(gref_tx_head))
           /\ \A skb \in DOMAIN skb_users :
                 skb_users'[skb] = skb_users[skb] - Cardinality(CollectedOf(skb))
           /\ FreeIds(tx_slots', tx_skb_freelist', NET_TX_RING_SIZE) =
                 FreeIds(tx_slots, tx_skb_freelist, NET_TX_RING_SIZE) \cup CollectedIds
      ]_vars

\* The collector run from the interrupt has passed the two responses of a
\* segmented packet, the second of null status, and the queue is still stopped.
C20_Witness ==
    /\ txc.owner = "irq" /\ txc.pc = "gc_event" /\ txc.prod = 2
    /\ tx.rsp_cons = 2 /\ tx.req_prod_pvt = 2 /\ qstopped
    /\ tx_ring[0].t = "rsp" /\ tx_ring[0].status # XEN_NETIF_RSP_NULL
    /\ tx_ring[1].t = "rsp" /\ tx_ring[1].status = XEN_NETIF_RSP_NULL
    /\ tx_slots[tx_ring[0].id].is_link /\ tx_skb_freelist = tx_ring[0].id

\* The ring position of the j-th request of the packet being submitted.
SubmitPos(j) == UAdd(txc'.first, j) % NET_TX_RING_SIZE

RefillStep ==
    /\ \/ (rxc.pc = "refill" /\ rxc' # rxc)
       \/ (~running /\ running' /\ carrier)
    /\ ~crashed'

\* The allocator gave f buffers in this call and then failed.
FailedAfter(f) ==
    /\ f < BatchNeed(RxState)
    /\ \E R \in {xennet_alloc_rx_buffers(RxState, rxs.rsp_prod, rxs.req_event, f)} :
          /\ rx' = [req_prod_pvt |-> R.pvt, rsp_cons |-> R.cons]
          /\ rx_ring' = R.ring /\ rx_slots' = R.slots /\ rx_batch' = R.batch
          /\ rx_target' = R.target /\ timer_armed' = R.timer /\ rxs'.req_prod = R.sreq

\* The k-th ring position behind the private producer of the RX ring.
RxPos(k) == xennet_rxidx(UAdd(rx.req_prod_pvt, k))

\* C21: when an allocation fails during a refill, the buffers staged in the
\* batch queue, if any, are all posted and published in that call; with none
\* staged the refill timer is armed and no descriptor is written.  The timer's
\* expiry schedules the poll task (if it is enabled), and a poll pass goes on
\* to the refill.
C21_AllocFailureFlushesOrArms ==
    [][ /\ \A f \in 0 .. MaxAlloc :
             (RefillStep /\ FailedAfter(f)) =>
                 IF f + Len(rx_batch) > 0
                 THEN /\ rx_batch' = << >>
                      /\ rx'.req_prod_pvt = UAdd(rx.req_prod_pvt, f + Len(rx_batch))
                      /\ rxs'.req_prod = rx'.req_prod_pvt
                      /\ timer_armed' = timer_armed
                      /\ \A k \in 0 .. (f + Len(rx_batch) - 1) :
                            /\ rx_slots'[RxPos(k)].skb # 0
                            /\ k < Len(rx_batch) => rx_slots'[RxPos(k)].skb = rx_batch[k + 1]
                            /\ gnt'[rx_slots'[RxPos(k)].gref] = "bound"
                            /\ rx_ring'[RxPos(k)] =
                                  RxReq(rx_ring[RxPos(k)], RxPos(k), rx_slots'[RxPos(k)].gref)
                 ELSE /\ timer_armed'
                      /\ UNCHANGED << rx, rx_ring, rx_slots, rx_batch, gnt, gref_rx_head >>
        /\ (timer_armed /\ ~timer_armed') =>
               napi' = (IF napi = "disabled" THEN "disabled" ELSE "sched")
        /\ (rxc.pc = "shrink" /\ rxc' # rxc) => rxc'.pc = "refill"
        /\ PassBegins => rxc'.pc = "shrink"
      ]_vars

\* A poll pass is past its refill, in which the allocator failed after some
\* buffers: the batch queue is empty, all is published, the timer is not armed
\* and fewer than rx_target requests are outstanding.
C21_Witness ==
    /\ rxc.owner = "poll" /\ rxc.pc = "final" /\ ~timer_armed /\ rx_batch = << >>
    /\ rxs.req_prod = rx.req_prod_pvt /\ rx.rsp_cons = 1
    /\ USub(rx.req_prod_pvt, rx.rsp_cons) < rx_target
    /\ rx.req_prod_pvt > RX_DFL_MIN_TARGET

\* The call of xennet_alloc_rx_buffers of this step got f buffers from the
\* allocator (NoFail: all it asked for).
RefillGot(f) ==
    \E R \in {xennet_alloc_rx_buffers(RxState, rxs.rsp_prod, rxs.req_event, f)} :
       /\ rx' = [req_prod_pvt |-> R.pvt, rsp_cons |-> R.cons]
       /\ rx_ring' = R.ring /\ rx_slots' = R.slots /\ rx_batch' = R.batch
       /\ rx_target' = R.target /\ timer_armed' = R.timer /\ rxs'.req_prod = R.sreq

\* The buffers staged when the allocation loop of that call ends, and whether
\* the loop ends at the test of the batch size with too few of them.
StagedAfter(f) == Len(rx_batch) + Min(f, BatchNeed(RxState))
SmallBatch(f) ==
    /\ StagedAfter(f) < rx_target \div 2
    /\ ~(f < BatchNeed(RxState) /\ StagedAfter(f) > 0)
Surplus == rx.req_prod_pvt > rxs.req_prod

\* C22 as stated: a refill whose allocation ends with fewer than rx_target / 2
\* buffers staged defers if the private producer equals the shared req_prod,
\* and flushes the staged buffers if a surplus is unpublished.
C22_SurplusFlushesBatch ==
    [][ \A f \in AllocFails :
           (RefillStep /\ RefillGot(f) /\ SmallBatch(f)) =>
               IF Surplus
               THEN /\ rx_batch' = << >>
                    /\ rx'.req_prod_pvt = UAdd(rx.req_prod_pvt, StagedAfter(f))
                    /\ rxs'.req_prod = rx'.req_prod_pvt
               ELSE /\ Len(rx_batch') = StagedAfter(f)
                    /\ UNCHANGED << rx, rx_ring, rx_slots >>
                    /\ rxs'.req_prod = rxs.req_prod
      ]_vars

\* C22, amended: such a refill keeps the staged buffers in the batch queue,
\* writes no descriptor and leaves the private producer and rx_target alone;
\* the shared req_prod is left alone too if it equals the private producer,
\* and is moved up to the private producer if a surplus is unpublished.
C22_SmallBatchStaysStaged ==
    [][ \A f \in AllocFails :
           (RefillStep /\ RefillGot(f) /\ SmallBatch(f)) =>
               /\ Len(rx_batch') = StagedAfter(f)
               /\ \A k \in 1 .. Len(rx_batch) : rx_batch'[k] = rx_batch[k]
               /\ UNCHANGED << rx, rx_ring, rx_slots, rx_target, gnt, gref_rx_head >>
               /\ rxs'.req_prod = (IF Surplus THEN rx.req_prod_pvt ELSE rxs.req_prod)
      ]_vars

\* A poll pass is past its refill: a moved slot was published, and a buffer
\* too few to be worth posting stays in the batch queue.
C22_Witness ==
    /\ rxc.owner = "poll" /\ rxc.pc = "final" /\ Len(rx_batch) = 1 /\ rx_target \div 2 > 1
    /\ rx.rsp_cons = 2 /\ rxs.req_prod = rx.req_prod_pvt
    /\ rx.req_prod_pvt = RX_DFL_MIN_TARGET + 1 /\ stats.rx_errors = 1

\* The allocation loop of the call ends without a failure and with a batch
\* large enough to post; or it ends in a failure with buffers staged.
PostsBatch(f) == f >= BatchNeed(RxState) /\ StagedAfter(f) >= rx_target \div 2
FailureFlush(f) == f < BatchNeed(RxState) /\ StagedAfter(f) > 0
Doubled(target) == IF target * 2 > rx_max_target THEN rx_max_target ELSE target * 2

\* C23 as stated: a refill that goes on to post its batch doubles rx_target,
\* capped at rx_max_target, exactly when requests issued minus responses
\* consumed is below rx_target / 4; a deferred refill and the flush after an
\* allocation failure leave rx_target alone.
C23_GrowthByConsumedHeadroom ==
    [][ \A f \in AllocFails :
           (RefillStep /\ RefillGot(f)) =>
               /\ PostsBatch(f) =>
                     rx_target' = (IF USub(rx.req_prod_pvt, rx.rsp_cons) < rx_target \div 4
                                   THEN Doubled(rx_target) ELSE rx_target)
               /\ (SmallBatch(f) \/ FailureFlush(f)) => rx_target' = rx_target
      ]_vars

\* C23, amended: the headroom that decides is requests issued minus responses
\* produced by the peer (the shared rsp_prod).
C23_GrowthByProducedHeadroom ==
    [][ \A f \in AllocFails :
           (RefillStep /\ RefillGot(f)) =>
               /\ PostsBatch(f) =>
                     rx_target' = (IF USub(rx.req_prod_pvt, rxs.rsp_prod) < rx_target \div 4
                                   THEN Doubled(rx_target) ELSE rx_target)
               /\ (SmallBatch(f) \/ FailureFlush(f)) => rx_target' = rx_target
      ]_vars

\* xennet_open has posted a batch and doubled the target: the peer had
\* answered the only request, and the answer is still unconsumed.
C23_Witness ==
    /\ running /\ carrier /\ rx_target = 2 * RX_DFL_MIN_TARGET /\ rx_batch = << >>
    /\ rx.rsp_cons = 0 /\ rxs.rsp_prod = 1 /\ rx.req_prod_pvt = RX_DFL_MIN_TARGET
    /\ rxs.req_prod = rx.req_prod_pvt /\ napi = "sched" /\ rxc.owner = "none"

\* C24: a poll pass with the link up applies the shrink rule once, after the
\* parsing and before the refill: rx_target goes down by one, and not below
\* rx_min_target, if the requests the peer has not answered exceed three
\* quarters of it, and stays otherwise; no other step of the pass and no
\* refill outside a pass (open, connect, a write to rxbuf_min or rxbuf_max)
\* lowers rx_target, except that a write to rxbuf_max caps it.
C24_ShrinkOncePerPass ==
    [][ /\ PassBegins => (rx_target' = rx_target /\ rxc'.pc = "shrink")
        /\ (rxc.pc = "shrink" /\ rxc' # rxc) =>
               /\ rxc'.pc = "refill"
               /\ rx_target' =
                     (IF USub(rx.req_prod_pvt, rxs.rsp_prod) > (3 * rx_target) \div 4
                      THEN Max(rx_target - 1, rx_min_target) ELSE rx_target)
        /\ (rxc.owner = "poll" /\ rxc.pc # "shrink") =>
               (rx_target' >= rx_target /\ rxc'.pc # "shrink")
        /\ (rxc.owner = "none" /\ rx_target' < rx_target) =>
               (rx_max_target' < rx_target /\ rx_target' = rx_max_target'
                  /\ rxc'.owner = "none")
      ]_vars

\* A pass has lowered the target by one, to rx_min_target, with all buffers
\* still at the peer, and stands before its refill.
C24_Witness ==
    /\ rxc.owner = "poll" /\ rxc.pc = "refill" /\ rxc.shrunk
    /\ rx_target = rx_min_target /\ rx_target = RX_MAX_TARGET - 2
    /\ USub(rx.req_prod_pvt, rxs.rsp_prod) > (3 * (rx_target + 1)) \div 4

\* The first packet a poll pass finds, read off the ring as the pass finds it:
\* RspAt(k) and SlotAt(k) are the response and the slot k positions above
\* rx.rsp_cons, Avail the responses below rsp_prod; ExtN is the number of
\* extra-info records behind the head (followed while the more flag is set
\* and rsp_prod is not reached), FragAt(k) the k-th response of the chain and
\* FragN the length of the chain (followed while more_data is set and rsp_prod
\* is not reached).
RspAt(k) == rx_ring[xennet_rxidx(UAdd(rx.rsp_cons, k))]
SlotAt(k) == rx_slots[xennet_rxidx(UAdd(rx.rsp_cons, k))]
Avail == USub(rxs.rsp_prod, rx.rsp_cons)
HeadHasExtras == Bit(RspAt(0).flags, XEN_NETRXF_extra_info)
ExtEnds(j) == j + 1 = Avail \/ (j >= 1 /\ ~ExtraMore(RspAt(j)))
ExtN ==
    IF ~HeadHasExtras THEN 0
    ELSE CHOOSE j \in 0 .. (Avail - 1) : ExtEnds(j) /\ \A i \in 0 .. (j - 1) : ~ExtEnds(i)
FragAt(k) == IF k = 0 THEN RspAt(0) ELSE RspAt(ExtN + k)
FragSlot(k) == IF k = 0 THEN SlotAt(0) ELSE SlotAt(ExtN + k)
FragEnds(m) == ~Bit(FragAt(m - 1).flags, XEN_NETRXF_more_data) \/ ExtN + m = Avail
FragN ==
    CHOOSE m \in 1 .. (Avail - ExtN) : FragEnds(m) /\ \A i \in 1 .. (m - 1) : ~FragEnds(i)
BadType(j) ==
    ExtraType(RspAt(j)) = 0 \/ ExtraType(RspAt(j)) >= XEN_NETIF_EXTRA_TYPE_MAX

\* A poll pass begins on a ring that holds a response, and its parsing returns.
PassWithPacket == PassBegins /\ Avail > 0 /\ Avail <= NET_RX_RING_SIZE /\ ~crashed'

\* C25: every extra-info record that xennet_get_extras consumes has its buffer
\* and grant taken out of the slot and re-posted unchanged, in a new request, at
\* the private request producer, which advances by one per record; the buffer
\* is neither delivered nor freed and the grant stays bound.  A record of
\* unknown type makes the packet an error, and the records are consumed and
\* re-posted all the same while the more flag is set and rsp_prod is not
\* reached.
C25_ExtrasRecycled ==
    [][ (PassWithPacket /\ HeadHasExtras) =>
           /\ \A j \in 1 .. ExtN :
                 /\ SlotAt(j).skb # 0
                 /\ rx_slots'[RxPos(j - 1)] = SlotAt(j)
                 /\ rx_ring'[RxPos(j - 1)] =
                        RxReq(rx_ring[RxPos(j - 1)], RxPos(j - 1), SlotAt(j).gref)
                 /\ gnt'[SlotAt(j).gref] = "bound" /\ gnt[SlotAt(j).gref] = "bound"
                 /\ skb_users'[SlotAt(j).skb] = skb_users[SlotAt(j).skb]
           /\ USub(rx'.req_prod_pvt, rx.req_prod_pvt) >= ExtN
           /\ USub(rx'.rsp_cons, rx.rsp_cons) >= ExtN + 1
           /\ (\E j \in 1 .. ExtN : BadType(j)) =>
                 /\ stats'.rx_errors > stats.rx_errors
                 /\ rxc'.queued <= Avail - (ExtN + FragN)
      ]_vars

\* One pass has consumed a head with two extra-info records, the first of
\* unknown type with the more flag: one error is counted, nothing is
\* delivered and the two buffers are posted again.
C25_Witness ==
    /\ rxc.owner = "poll" /\ rxc.pc = "shrink" /\ rxc.queued = 0 /\ stats.rx_errors = 1
    /\ rx.rsp_cons = 3 /\ rx.req_prod_pvt = RX_DFL_MIN_TARGET + 2
    /\ rx_ring[0] = RxResponses.extra /\ rx_ring[1] = RxResponses.unk_more
    /\ rx_ring[2] = RxResponses.gso

\* What the first packet of the pass looks like: the longest chain accepted
\* for its head, a response the parser rejects for its status or offset, and a
\* packet without extra-info records whose chain is whole and good.
MaxFrags == MAX_SKB_FRAGS + (IF RspAt(0).status <= RX_COPY_THRESHOLD THEN 1 ELSE 0)
BadFrag(k) == FragAt(k).status < 0 \/ FragAt(k).offset + FragAt(k).status > PAGE_SIZE
ChainWhole == ~Bit(FragAt(FragN - 1).flags, XEN_NETRXF_more_data)
GoodFirst ==
    /\ ~HeadHasExtras /\ ChainWhole
    /\ \A k \in 0 .. (FragN - 1) : ~BadFrag(k) /\ FragSlot(k).gref # GRANT_INVALID_REF

\* The buffer of the k-th response of the chain is freed and its grant is back
\* in the pool; or, for a response the parser rejected, buffer and grant are
\* posted again.
FragReclaimed(k) ==
    IF BadFrag(k)
    THEN /\ skb_users'[FragSlot(k).skb] = skb_users[FragSlot(k).skb]
         /\ \E i \in RxIds : rx_slots'[i] = FragSlot(k)
    ELSE /\ skb_users'[FragSlot(k).skb] = 0
         /\ gnt'[FragSlot(k).gref] = "pool"
         /\ FragSlot(k).gref \in SeqToSet(gref_rx_head')
         /\ \A i \in RxIds : rx_slots'[i].skb # FragSlot(k).skb

\* C26: a chain of more than MAX_SKB_FRAGS responses, or MAX_SKB_FRAGS + 1 if
\* the head is no longer than RX_COPY_THRESHOLD, is an error: the packet is not
\* delivered, every buffer of the chain is reclaimed and rsp_cons moves past the
\* chain; a good chain within the limit is delivered.
C26_LongChainRejected ==
    [][ PassWithPacket =>
           /\ (FragN > MaxFrags) =>
                 /\ stats'.rx_errors > stats.rx_errors
                 /\ rxc'.queued <= Avail - (ExtN + FragN)
                 /\ USub(rx'.rsp_cons, rx.rsp_cons) >= ExtN + FragN
                 /\ \A k \in 0 .. (FragN - 1) : FragReclaimed(k)
           /\ (FragN <= MaxFrags /\ GoodFirst) =>
                 /\ rxc'.queued >= 1
                 /\ (Avail = FragN) => stats'.rx_errors = stats.rx_errors
                 /\ skb_users'[FragSlot(0).skb] = skb_users[FragSlot(0).skb] - 1
      ]_vars

\* One pass has consumed a chain of three responses with a small head: an
\* error is counted, nothing is delivered, nothing is posted again.
C26_Witness ==
    /\ rxc.owner = "poll" /\ rxc.pc = "shrink" /\ rxc.queued = 0 /\ stats.rx_errors = 1
    /\ rx.rsp_cons = 3 /\ rx.req_prod_pvt = RX_DFL_MIN_TARGET
    /\ rx_ring[0] = RxResponses.more /\ rx_ring[1] = RxResponses.more
    /\ rx_ring[2] = RxResponses.ok
    /\ Len(gref_rx_head) = RX_MAX_TARGET - 1

\* The first packet of the pass is one whose parsing returns an error: its
\* extra-info records run into rsp_prod or have an unknown type, or its chain is
\* too long, cut short by rsp_prod, or has a response of bad offset or length.
ExtrasCut == ExtN + 1 = Avail /\ (ExtN = 0 \/ ExtraMore(RspAt(ExtN)))
FirstErr ==
    \/ HeadHasExtras /\ (ExtrasCut \/ \E j \in 1 .. ExtN : BadType(j))
    \/ FragN > MaxFrags
    \/ ~ChainWhole
    \/ \E k \in 0 .. (FragN - 1) : BadFrag(k)

\* The responses of the first packet, and the packets after it that the pass
\* takes when each of them is one good response.
FirstUsed == ExtN + FragN
RestPlain == \A k \in FirstUsed .. (Avail - 1) : RspAt(k) = RxResponses.ok
RestTaken == IF Avail - FirstUsed < NAPI_WEIGHT THEN Avail - FirstUsed ELSE NAPI_WEIGHT

\* C27: a packet whose parsing returns an error adds one to rx_errors and
\* nothing to the delivery queue or to the count of the pass; the buffers it
\* had accepted are freed without delivery; and the good packets behind it are
\* delivered in the same pass.
C27_ErrorPacketCountedOnce ==
    [][ (PassWithPacket /\ FirstErr /\ RestPlain) =>
           /\ stats'.rx_errors = stats.rx_errors + 1
           /\ rxc'.queued = RestTaken
           /\ rxc'.work_done = RestTaken
           /\ rx'.rsp_cons = UAdd(rx.rsp_cons, FirstUsed + RestTaken)
           /\ \A k \in 0 .. (FragN - 1) : FragReclaimed(k)
           /\ \A k \in FirstUsed .. (FirstUsed + RestTaken - 1) :
                 /\ skb_users'[SlotAt(k).skb] = skb_users[SlotAt(k).skb] - 1
                 /\ gnt'[SlotAt(k).gref] = "pool"
                 /\ \A i \in RxIds : rx_slots'[i].skb # SlotAt(k).skb
      ]_vars

\* One pass has taken a chain whose second response is bad, and the good
\* packet behind it: the first buffer is freed, the second posted again, the
\* third delivered.
C27_Witness ==
    /\ rxc.owner = "poll" /\ rxc.pc = "shrink" /\ rxc.queued = 1 /\ rxc.work_done = 1
    /\ stats.rx_errors = 1 /\ rx_batch = << >>
    /\ rx.rsp_cons = 3 /\ rx.req_prod_pvt = RX_DFL_MIN_TARGET + 1
    /\ rx_ring[0] = RxResponses.more /\ rx_ring[1] = RxResponses.bad
    /\ rx_ring[2] = RxResponses.ok

\* The requests the peer may read: those below the shared req_prod that it has
\* not answered.
TxPubN == USub(txs.req_prod, txs.rsp_prod)
RxPubN == USub(rxs.req_prod, rxs.rsp_prod)
TxPubPos(k) == UAdd(txs.rsp_prod, k) % NET_TX_RING_SIZE
RxPubPos(k) == xennet_rxidx(UAdd(rxs.rsp_prod, k))

\* The requests a step publishes, and what a published request looks like after
\* the step: its id names a slot that holds a buffer and the grant of the
\* request, bound; a TX request is flagged more_data if and only if another
\* request of the step follows it.
TxNewN == USub(txs'.req_prod, txs.req_prod)
RxNewN == USub(rxs'.req_prod, rxs.req_prod)
TxNew(k) == tx_ring'[UAdd(txs.req_prod, k) % NET_TX_RING_SIZE]
RxNew(k) == rx_ring'[xennet_rxidx(UAdd(rxs.req_prod, k))]
TxNewWritten(k) ==
    \/ TxNew(k).t = "gso" /\ k = 1 /\ TxNew(0).extra /\ TxNew(k).size = gso_size
    \/ /\ TxNew(k).t = "req"
       /\ ~tx_slots'[TxNew(k).id].is_link
       /\ tx_slots'[TxNew(k).id].skb # 0
       /\ tx_slots'[TxNew(k).id].gref = TxNew(k).gref
       /\ gnt'[TxNew(k).gref] = "bound"
       /\ TxNew(k).more <=> \E j \in (k + 1) .. (TxNewN - 1) : TxNew(j).t = "req"
RxNewWritten(k) ==
    /\ RxNew(k).id = xennet_rxidx(UAdd(rxs.req_prod, k))
    /\ rx_slots'[RxNew(k).id].skb # 0
    /\ rx_slots'[RxNew(k).id].gref = RxNew(k).flags
    /\ gnt'[RxNew(k).flags] = "bound"

\* C28: every request the shared req_prod of a ring comes to cover has been
\* written in full, the more_data flag and the size of the whole packet in the
\* first request included; and the driver writes to no request that the shared
\* req_prod covers: such a slot changes only when the peer answers it.
C28_RequestsWrittenBeforePublished ==
    [][ /\ \A k \in 0 .. (TxPubN - 1) :
             (k > 0 \/ txs'.rsp_prod = txs.rsp_prod) => tx_ring'[TxPubPos(k)] = tx_ring[TxPubPos(k)]
        /\ \A k \in 0 .. (RxPubN - 1) :
             (k > 0 \/ rxs'.rsp_prod = rxs.rsp_prod) => rx_ring'[RxPubPos(k)] = rx_ring[RxPubPos(k)]
        /\ \A k \in 0 .. (TxNewN - 1) : TxNewWritten(k)
        /\ (TxNewN > 0) => /\ TxNew(0).size = SkbLen(txc'.pkt)
                           /\ TxNewN = SlotCount(txc'.pkt) + (IF txc'.pkt.gso THEN 1 ELSE 0)
        /\ \A k \in 0 .. (RxNewN - 1) : RxNewWritten(k)
        /\ USub(tx'.req_prod_pvt, txs'.req_prod) <= NET_TX_RING_SIZE
        /\ USub(rx'.req_prod_pvt, rxs'.req_prod) <= NET_RX_RING_SIZE
      ]_vars

\* A head that crosses a page, with its GSO record, has been written in two
\* steps and pushed, and none of its three requests is answered; on the RX ring
\* the poll pass has re-posted the buffer of an extra-info record and pushed it
\* with the refill.
C28_Witness ==
    /\ txc.owner = "xmit" /\ txc.pc = "gc_read" /\ TxPubN = 3
    /\ rxs.req_prod > RX_DFL_MIN_TARGET /\ rxs.req_prod = rx.req_prod_pvt
    /\ rx_ring[0] = RxResponses.extra /\ rx_ring[1] = RxResponses.gso

\* The iterations of the parse loop of a pass that starts now: for each, the
\* rsp_cons it starts from and the one it leaves, whether it delivered a packet
\* and whether it ran into a BUG_ON.
RECURSIVE PollIters(_, _, _, _, _)
PollIters(R, rp, work_done, budget, mapped) ==
    IF ~PollMore(R.cons, rp, work_done, budget) \/ R.bug THEN << >>
    ELSE LET o == PollBody(PollHead(R, rp, mapped), R.ring[xennet_rxidx(R.cons)], work_done)
         IN << [from |-> R.cons, to |-> o.R.cons, bug |-> o.R.bug,
                delivered |-> o.work_done - work_done] >>
            \o PollIters(o.R, rp, o.work_done, budget, mapped)
PollCanStart == ~crashed /\ napi = "sched" /\ RxLockFree /\ carrier
Iters == PollIters(RxState, rxs.rsp_prod, 0, NAPI_WEIGHT, gnt_mapped)
Posted == USub(rx.req_prod_pvt, rx.rsp_cons)

\* C29: every iteration of the parse loop advances rsp_cons by at least one
\* and never past the rsp_prod read at the start of the pass, so the loop ends
\* after at most as many iterations as responses were pending; the pass leaves
\* rsp_cons where the last iteration left it, and no buffer posted at or after
\* that rsp_prod is taken or moved.
C29_ParseLoopAdvancesUpToRp ==
    [][ PollCanStart =>
           /\ \A n \in 1 .. Len(Iters) :
                 ~Iters[n].bug =>
                    /\ USub(Iters[n].to, Iters[n].from) >= 1
                    /\ USub(Iters[n].to, rx.rsp_cons) <= Avail
                    /\ Iters[n].delivered \in {0, 1}
           /\ Len(Iters) <= Avail
           /\ PassBegins =>
                 /\ rx'.rsp_cons = (IF Iters = << >> THEN rx.rsp_cons ELSE Iters[Len(Iters)].to)
                 /\ USub(rx'.rsp_cons, rx.rsp_cons) <= Avail
                 /\ \A k \in Avail .. (Posted - 1) : rx_slots'[xennet_rxidx(UAdd(rx.rsp_cons, k))] = SlotAt(k)
      ]_vars

\* A pass has met a head whose extra-info record is not there yet, after a
\* good packet and a bad one: the pass stops at the rsp_prod it read, the head
\* is counted as an error and the buffer posted behind it is where it was.
C29_Witness ==
    /\ rxc.owner = "poll" /\ rxc.pc = "shrink" /\ stats.rx_errors = 2
    /\ rx.rsp_cons = 3 /\ rxs.rsp_prod = 3 /\ rx.req_prod_pvt = RX_DFL_MIN_TARGET + 1
    /\ rx_ring[0] = RxResponses.ok /\ rx_ring[1] = RxResponses.bad
    /\ rx_ring[2] = RxResponses.extra
    /\ rx_slots[2].skb = 0 /\ rx_slots[3].skb # 0

\* xennet_disconnect_backend returns on a device that was connected; the
\* device is and stays without a backend.
DiscReturns == connected /\ ~connected' /\ teardown' = "none"
StaysDown == ~connected /\ ~connected' /\ teardown = "none" /\ teardown' = "none"
Released(ref) == gnt'[ref] = (IF ref \in gnt_mapped THEN "leaked" ELSE "global")

\* C30: when xennet_disconnect_backend returns, both slot tables are released
\* and the freelist head is 0, every buffer a TX or RX slot held is freed, every
\* grant a slot held is ended and released, or leaked if the peer still maps it,
\* both grant pools are released and no grant is bound; and on a device without
\* a backend, torn down before or never connected, it changes nothing.
C30_DisconnectReleasesAll ==
    [][ /\ DiscReturns =>
              /\ tx_slots' = [i \in TxIds |-> FreeSlot(0)] /\ tx_skb_freelist' = 0
              /\ rx_slots' = [i \in RxIds |-> EmptyRxSlot]
              /\ gref_tx_head' = << >> /\ gref_rx_head' = << >>
              /\ \A i \in TxIds :
                    ~tx_slots[i].is_link =>
                       /\ tx_slots[i].skb # 0 /\ skb_users'[tx_slots[i].skb] = 0
                       /\ tx_slots[i].gref # GRANT_INVALID_REF /\ Released(tx_slots[i].gref)
              /\ \A i \in RxIds :
                    rx_slots[i].skb # 0 =>
                       /\ skb_users'[rx_slots[i].skb] = 0
                       /\ rx_slots[i].gref # GRANT_INVALID_REF /\ Released(rx_slots[i].gref)
              /\ \A r \in Refs : gnt'[r] \in {"global", "leaked"}
              /\ ~carrier'
        /\ StaysDown =>
              UNCHANGED << carrier, irq_pending, txvars, rxs, rx_ring, rx_slots,
                           gref_rx_head, gnt, skb_users >>
      ]_vars

\* The device was torn down with a packet in flight and a grant the peer still
\* maps: the tables and pools are gone, the grant is leaked, no buffer is left.
C30_Witness ==
    /\ ~connected /\ nconnect = 1 /\ ~crashed
    /\ USub(tx.req_prod_pvt, tx.rsp_cons) = 2
    /\ \E r \in Refs : gnt[r] = "leaked"
    /\ \A k \in Skbs : skb_users[k] = 0
    /\ tx_slots = [i \in TxIds |-> FreeSlot(0)] /\ gref_tx_head = << >>

\* The ring positions of the RX buffers the driver has posted and not taken
\* back, and the slots they use.
RxPosted == { UAdd(rx.rsp_cons, k) : k \in 0 .. (USub(rx.req_prod_pvt, rx.rsp_cons) - 1) }
RxPostedIds == { xennet_rxidx(p) : p \in RxPosted }
RxUnanswered(p) == USub(p, rx.rsp_cons) >= USub(rxs.rsp_prod, rx.rsp_cons)

\* Every posted position has its own slot with a buffer and a bound grant, its
\* request, while unanswered, carries the slot's index and grant, and every
\* other slot is empty.
RxSlotsMatchRing ==
    /\ USub(rx.req_prod_pvt, rx.rsp_cons) <= NET_RX_RING_SIZE
    /\ \A p \in RxPosted :
          /\ rx_slots[xennet_rxidx(p)].skb # 0
          /\ skb_users[rx_slots[xennet_rxidx(p)].skb] = 1
          /\ rx_slots[xennet_rxidx(p)].gref # GRANT_INVALID_REF
          /\ gnt[rx_slots[xennet_rxidx(p)].gref] = "bound"
          /\ RxUnanswered(p) =>
                /\ rx_ring[xennet_rxidx(p)].id = xennet_rxidx(p)
                /\ rx_ring[xennet_rxidx(p)].flags = rx_slots[xennet_rxidx(p)].gref
    /\ \A i \in RxIds \ RxPostedIds : rx_slots[i] = EmptyRxSlot

\* C31: whenever rx_lock is free on a connected device and the machine has
\* not stopped at a BUG_ON, the posted positions and the slot table agree; so
\* the slot a refill or xennet_move_rx_slot writes next is empty.
C31_SlotsMatchWhileConnected ==
    (RxLockFree /\ connected /\ teardown = "none" /\ ~crashed) =>
        /\ RxSlotsMatchRing
        /\ USub(rx.req_prod_pvt, rx.rsp_cons) < NET_RX_RING_SIZE =>
               rx_slots[xennet_rxidx(rx.req_prod_pvt)] = EmptyRxSlot

\* A rejected response was recycled behind the buffers of the first fill, a
\* good one was delivered and a refill has followed.
C31_Witness ==
    /\ RxLockFree /\ connected /\ ~crashed
    /\ rx.rsp_cons = 2 /\ rxs.rsp_prod = 2
    /\ stats.rx_errors = 1
    /\ rx.req_prod_pvt > RX_DFL_MIN_TARGET + 1
    /\ rx_slots[xennet_rxidx(RX_DFL_MIN_TARGET)].skb # 0

\* The TX descriptors that own buffer k and have not been collected or torn down.
TxOwners(k) == { id \in TxIds : ~tx_slots[id].is_link /\ tx_slots[id].skb = k }

\* The ids of the requests the backend has not answered yet.
TxUnansweredIds ==
    { tx_ring[UAdd(txs.rsp_prod, j) % NET_TX_RING_SIZE].id :
        j \in { n \in 0 .. (NET_TX_RING_SIZE - 1) :
                  /\ n < USub(txs.req_prod, txs.rsp_prod)
                  /\ tx_ring[UAdd(txs.rsp_prod, n) % NET_TX_RING_SIZE].t = "req" } }

\* C32: a transmit buffer has one reference per descriptor that owns it; a
\* descriptor gives up its buffer only when xennet_tx_buf_gc collects its
\* response or at disconnect; the buffer is freed (count 0) in the step that
\* takes its last descriptor and in no other; no descriptor the backend has
\* not answered has lost its buffer.
C32_FreedWithLastDescriptor ==
    [][ \A k \in Skbs :
          /\ skb_users'[k] = SkbRefs(k)'
          /\ \A id \in TxOwners(k) \ TxOwners(k)' :
                (connected' /\ id \in CollectedIds) \/ ~connected'
          /\ (TxOwners(k) # {} /\ TxOwners(k)' = {}) => skb_users'[k] = 0
          /\ (TxOwners(k)' # {}) => skb_users'[k] = Cardinality(TxOwners(k)')
          /\ (connected' /\ ~crashed') =>
                \A id \in TxUnansweredIds' :
                    id \in TxIds /\ ~tx_slots'[id].is_link /\ skb_users'[tx_slots'[id].skb] > 0
      ]_vars

\* The freelist as the sequence of ids met from its head, at most n of them.
RECURSIVE FreeWalk(_, _, _)
FreeWalk(slots, head, n) ==
    IF n = 0 \/ head \notin TxIds THEN << >>
    ELSE << head >> \o FreeWalk(slots, slots[head].link, n - 1)

\* The freelist and the owned ids split the slot table, and the freelist ends
\* at the id one past the table after as many links as it has ids.
IdsPartition ==
    /\ FreeIds(tx_slots, tx_skb_freelist, NET_TX_RING_SIZE) \cap OwnedIds = {}
    /\ FreeIds(tx_slots, tx_skb_freelist, NET_TX_RING_SIZE) \cup OwnedIds = TxIds
    /\ Len(FreeWalk(tx_slots, tx_skb_freelist, NET_TX_RING_SIZE + 1))
           = NET_TX_RING_SIZE - Cardinality(OwnedIds)

\* C33: on a connected device the ids on the TX freelist and the ids owned by
\* descriptors in flight are disjoint and together all ids of the slot table,
\* no id is twice on the freelist, every id popped is inside the table, and a
\* response makes xennet_tx_buf_gc free only an id a descriptor owns, whatever
\* id the backend puts in it.
C33_IdsPartitionWithAnyPeer ==
    [][ /\ (connected' /\ teardown' = "none") => (~crashed' /\ IdsPartition')
        /\ (connected /\ txc.pc = "gc_read" /\ txc'.pc = "gc_event") =>
               \A k \in 0 .. (NET_TX_RING_SIZE - 1) :
                   k < USub(txs.rsp_prod, tx.rsp_cons) =>
                       LET rsp == tx_ring[UAdd(tx.rsp_cons, k) % NET_TX_RING_SIZE]
                       IN (rsp.t = "rsp" /\ rsp.status # XEN_NETIF_RSP_NULL) =>
                              rsp.id \in OwnedIds /\ rsp.id \in hist.tx_inflight
      ]_vars

\* The grants held for transmit descriptors and for receive buffers.
TxHeldRefs == { TxHeld(i) : i \in TxIds } \ {GRANT_INVALID_REF}
RxHeldRefs == { RxHeld(i) : i \in RxIds } \ {GRANT_INVALID_REF}

\* C34: a grant that a step releases goes back to the pool it was claimed
\* from: one held for a receive buffer to the list headed by gref_rx_head and
\* not to the one headed by gref_tx_head, one held for a transmit descriptor to
\* the list headed by gref_tx_head and not to the other.
C34_ReleasedToOwnPool ==
    [][ \A r \in Refs :
          (gnt[r] = "bound" /\ gnt'[r] = "pool") =>
             /\ r \in RxHeldRefs =>
                   /\ r \in SeqToSet(gref_rx_head')
                   /\ r \notin SeqToSet(gref_tx_head')
             /\ r \in TxHeldRefs =>
                   /\ r \in SeqToSet(gref_tx_head')
                   /\ r \notin SeqToSet(gref_rx_head')
      ]_vars

\* C35: every fragment of a packet put on the delivery queue has a
\* non-negative length and ends inside its page, also when the backend
\* rewrites response slots after xennet_get_responses has validated them.
C35_DeliveredFragsInsidePage ==
    \A f \in hist.frags : f.size >= 0 /\ f.offset + f.size <= PAGE_SIZE

\* C36: the consumers never pass the private producers: tx.rsp_cons is at most
\* tx.req_prod_pvt and rx.rsp_cons at most rx.req_prod_pvt, so the differences
\* req_prod_pvt - rsp_cons do not wrap, and no ring position without a posted
\* buffer is parsed as a response, also when the backend sets rsp_prod beyond
\* the requests issued.
C36_ConsumerBehindProducer ==
    (connected /\ teardown = "none") =>
        /\ USub(tx.req_prod_pvt, tx.rsp_cons) <= NET_TX_RING_SIZE
        /\ USub(rx.req_prod_pvt, rx.rsp_cons) <= NET_RX_RING_SIZE
        /\ "noref" \notin hist.rx_seen

\* A step in which xennet_alloc_rx_buffers ran with the link up and returned:
\* from the poll pass, xennet_open, xennet_connect or a store to rxbuf_min.
RefillReturned ==
    \/ RefillStep
    \/ (~connected /\ connected' /\ carrier' /\ ~crashed')
    \/ (rx_min_target' # rx_min_target /\ connected /\ carrier /\ ~crashed')

\* C37: when xennet_alloc_rx_buffers returns with the link up, the shared
\* req_prod equals the private request producer, and the refill timer is armed
\* or at least one published request is outstanding (req_prod - rsp_cons > 0).
C37_RefillLeavesBuffersOrTimer ==
    [][ RefillReturned =>
           /\ rxs'.req_prod = rx'.req_prod_pvt
           /\ timer_armed' \/ USub(rxs'.req_prod, rx'.rsp_cons) >= 1
      ]_vars

\* No buffer could be allocated since the connect: the refill of a poll pass
\* has returned with nothing posted, all published and the timer armed.
C37_Witness ==
    /\ connected /\ carrier /\ ~crashed
    /\ rxc.owner = "poll" /\ rxc.pc = "final"
    /\ rxs.req_prod = rx.req_prod_pvt
    /\ rx.rsp_cons = rx.req_prod_pvt /\ timer_armed

\* C38: whenever the transmit queue is running and the link is up (and no
\* submission is inside its critical section), netfront_tx_slot_available
\* holds: at least MAX_SKB_FRAGS + 2 descriptors are free; also after the
\* device was closed and reopened with completions outstanding.
C38_RunningQueueHasSlots ==
    (~qstopped /\ carrier /\ connected /\ ~crashed /\ TxLockFree) =>
        netfront_tx_slot_available

====
